---------------------------- MODULE Spec2Model ----------------------------
(***************************************************************************)
(* Daisyworld (src/World.h): the World class, its GroundCover struct and   *)
(* the operations a driver calls on it.                                     *)
(*                                                                         *)
(* Numbers.  The program computes in float.  The model computes in fixed   *)
(* point: a proportion, an albedo, a luminosity or a growth rate x is the  *)
(* integer x * ONE (ONE = 10^6), and a temperature is an integer number of *)
(* hundredths of a degree.  Every product is rounded toward zero to that   *)
(* resolution, and is split so that no intermediate value leaves 32 bits;  *)
(* a product by a power of two (0.25, 0.5) is exact, as it is in float.    *)
(***************************************************************************)
EXTENDS Integers, Sequences, FiniteSets, TLC

VARIABLES
    ground,                 \* World::ground
    groundAtLatitudes,      \* World::groundAtLatitudes[numberOfLatitudes]
    roundWorld,             \* World::roundWorld
    solarLuminosity,        \* World::solarLuminosity
    blackDaisiesEnabled,    \* World::blackDaisiesEnabled
    whiteDaisiesEnabled,    \* World::whiteDaisiesEnabled
    grayDaisiesEnabled,     \* World::grayDaisiesEnabled
    daisiesCanGrowAndDie,   \* World::daisiesCanGrowAndDie
    update,                 \* emp::World::update
    lastOp,                 \* the call the driver made last, with its arguments
    calls,                  \* how many calls the driver has made
    beforeTrip,             \* what GetProportionWhite/Black/Gray returned before a switch of topology
    animator                \* the fields of web.cpp's Animator, when the world is its member

vars == <<ground, groundAtLatitudes, roundWorld, solarLuminosity,
          blackDaisiesEnabled, whiteDaisiesEnabled, grayDaisiesEnabled,
          daisiesCanGrowAndDie, update, lastOp, calls, beforeTrip, animator>>

\* the world is not a member of an Animator: it belongs to native.cpp or is on its own
NoAnimator == <<>>

(***************************************************************************)
(* Fixed-point arithmetic                                                  *)
(***************************************************************************)
ONE == 1000000

Abs(x) == IF x < 0 THEN -x ELSE x

\* a / b rounded toward zero, as C++ division of the magnitudes
TruncDiv(a, b) == IF a < 0 THEN -((-a) \div b) ELSE a \div b

\* floor(a * b / base^2) for a, b >= 0, without forming a * b
MulNatBase(a, b, base) ==
    LET a1 == a \div base
        a0 == a % base
        b1 == b \div base
        b0 == b % base
    IN  a1 * b1 + (a1 * b0 + a0 * b1 + (a0 * b0) \div base) \div base

\* the float product a * b of two values scaled by ONE
Mul(a, b) ==
    IF (a < 0) = (b < 0) THEN MulNatBase(Abs(a), Abs(b), 1000)
                         ELSE -MulNatBase(Abs(a), Abs(b), 1000)

\* floor(a * b / c) for a, b, c >= 0, without forming a * b
MulDiv(a, b, c) == (a \div c) * b + ((a % c) * b) \div c

RECURSIVE SqrtSearch(_, _, _)
SqrtSearch(n, lo, hi) ==
    IF hi - lo <= 1 THEN lo
    ELSE LET mid == (lo + hi) \div 2
         IN  IF mid * mid <= n THEN SqrtSearch(n, mid, hi)
                               ELSE SqrtSearch(n, lo, mid)

\* floor(sqrt(n)) for 0 <= n < 2^31
Sqrt(n) == SqrtSearch(n, 0, 46341)

(***************************************************************************)
(* Constants of World                                                      *)
(***************************************************************************)
whiteAlbedo == 750000
blackAlbedo == 250000
grayAlbedo == 500000
groundAlbedo == 500000
\* stefansConstant = 0.0000567, in units of 10^-7
stefansConstant == 567
fluxConstant == 917000
\* celsiusToKelvin = 273, in hundredths of a degree
celsiusToKelvin == 27300
conductivityConstant == 20
deathRate == 300000
timePerUpdate == 10000
numberOfLatitudes == 90
numberOfDisplayedLatitudes == 10
minLuminosityMultiplier == 600000
maxLuminosityMultiplier == 1500000
\* the extinction floor 0.001 of GroundCover::Increment*Amount
extinctionFloor == 1000
\* the optimal growth temperature 22.5, in hundredths of a degree
optimalTemperature == 2250
\* the coefficient 0.003265 of GrowthRateFunction
growthCurvature == 3265

Latitudes == 0 .. (numberOfLatitudes - 1)

(***************************************************************************)
(* struct GroundCover                                                      *)
(***************************************************************************)
GroundCover(w, b, g) ==
    [proportionWhite |-> w, proportionBlack |-> b, proportionGray |-> g]

\* GroundCover() with its default arguments 0.33, 0.33, 0.0
DefaultGroundCover == GroundCover(330000, 330000, 0)

GC_GetProportionGround(gc) ==
    ONE - gc.proportionWhite - gc.proportionBlack - gc.proportionGray

\* not the code: the line  if (proportionWhite < 0.001) proportionWhite = 0.0  is missing
IncrementWhiteAmount_noFloor(gc, delta) ==
    [gc EXCEPT !.proportionWhite = gc.proportionWhite + delta]

IncrementWhiteAmount(gc, delta) ==
    LET p == gc.proportionWhite + delta
    IN  [gc EXCEPT !.proportionWhite = IF p < extinctionFloor THEN 0 ELSE p]

IncrementBlackAmount(gc, delta) ==
    LET p == gc.proportionBlack + delta
    IN  [gc EXCEPT !.proportionBlack = IF p < extinctionFloor THEN 0 ELSE p]

IncrementGrayAmount(gc, delta) ==
    LET p == gc.proportionGray + delta
    IN  [gc EXCEPT !.proportionGray = IF p < extinctionFloor THEN 0 ELSE p]

\* how many quarters an albedo of 0.25 or 0.5 is
Quarters(albedo) == TruncDiv(4 * albedo, ONE)

\* the gray term left out
GC_GetTotalAlbedo_withoutGray(gc) ==
    Mul(gc.proportionWhite, whiteAlbedo)
    + TruncDiv(Quarters(blackAlbedo) * gc.proportionBlack
               + Quarters(groundAlbedo) * GC_GetProportionGround(gc), 4)

\* the gray term weighted with the albedo of white daisies
GC_GetTotalAlbedo_grayAsWhite(gc) ==
    Mul(gc.proportionWhite, whiteAlbedo) + Mul(gc.proportionGray, whiteAlbedo)
    + TruncDiv(Quarters(blackAlbedo) * gc.proportionBlack
               + Quarters(groundAlbedo) * GC_GetProportionGround(gc), 4)

\* (w * whiteAlbedo) + (b * blackAlbedo) + (ground * groundAlbedo) + (g * grayAlbedo).
\* The products by 0.25 and by 0.5 are exact in binary floating point, so only the
\* product by 0.75 and the sum are rounded.
GC_GetTotalAlbedo(gc) ==
    Mul(gc.proportionWhite, whiteAlbedo)
    + TruncDiv(Quarters(blackAlbedo) * gc.proportionBlack
               + Quarters(groundAlbedo) * GC_GetProportionGround(gc)
               + Quarters(grayAlbedo) * gc.proportionGray, 4)

(***************************************************************************)
(* Thermal equations.  Each takes the part of the World it reads: rw is    *)
(* roundWorld, g is ground, bands is groundAtLatitudes, lum is             *)
(* solarLuminosity.                                                        *)
(***************************************************************************)
\* (max - min) / (numberOfLatitudes - 1) * latitude, multiplied before dividing
GetLuminosityMultiplierAtLatitude(latitude) ==
    minLuminosityMultiplier
    + ((maxLuminosityMultiplier - minLuminosityMultiplier) * latitude) \div (numberOfLatitudes - 1)

RECURSIVE TotalGlobalAbsorbsion(_, _, _)
\* the sum the loop of GetAverageAlbedoOnRoundPlanet adds up over the bands from .. to
\* (split in halves to keep the evaluation shallow)
TotalGlobalAbsorbsion(bands, from, to) ==
    IF from = to
    THEN LET AlbedoAtLatitude == GC_GetTotalAlbedo(bands[from])
             AbsorbsionAtLatitude == ONE - AlbedoAtLatitude
         IN  TruncDiv(Mul(GetLuminosityMultiplierAtLatitude(from), AbsorbsionAtLatitude),
                      numberOfLatitudes)
    ELSE LET mid == (from + to) \div 2
         IN  TotalGlobalAbsorbsion(bands, from, mid) + TotalGlobalAbsorbsion(bands, mid + 1, to)

\* the plain mean of the bands' albedos, every band weighted alike
GetAverageAlbedoOnRoundPlanet_unweighted(bands) ==
    (LET Sum[latitude \in Latitudes] ==
             GC_GetTotalAlbedo(bands[latitude]) + (IF latitude = 0 THEN 0 ELSE Sum[latitude - 1])
     IN  Sum[numberOfLatitudes - 1]) \div numberOfLatitudes

\* 1 - totalGlobalAbsorbsion
GetAverageAlbedoOnRoundPlanet(bands) ==
    ONE - TotalGlobalAbsorbsion(bands, 0, numberOfLatitudes - 1)

TotalAlbedoOf(rw, g, bands) ==
    IF rw THEN GetAverageAlbedoOnRoundPlanet(bands) ELSE GC_GetTotalAlbedo(g)

\* sqrt(fluxConstant / stefansConstant) / 10
SqrtFluxOverStefan == Sqrt(MulDiv(fluxConstant, 100000, stefansConstant))

\* the luminosity left out of the flux
StefanBoltzmann_withoutLuminosity(lum, absorbsion) ==
    Sqrt(SqrtFluxOverStefan * Sqrt(MulNatBase(ONE, absorbsion, 100)) * 10) - celsiusToKelvin

\* pow(x, 0.25) - celsiusToKelvin for x = fluxConstant * lum * absorbsion / stefansConstant,
\* as two square roots; the result is in hundredths of a degree
StefanBoltzmann(lum, absorbsion) ==
    Sqrt(SqrtFluxOverStefan * Sqrt(MulNatBase(lum, absorbsion, 100)) * 10) - celsiusToKelvin

GlobalTemperatureOf(rw, g, bands, lum) ==
    LET globalAlbedo == TotalAlbedoOf(rw, g, bands)
        globalAbsorbsion == ONE - globalAlbedo
    IN  StefanBoltzmann(lum, globalAbsorbsion)

\* the local temperature without the conduction term: the global temperature
TemperatureOfAlbedoOf_global(localAlbedo, rw, g, bands, lum) ==
    GlobalTemperatureOf(rw, g, bands, lum)

TemperatureOfAlbedoOf(localAlbedo, rw, g, bands, lum) ==
    TruncDiv(conductivityConstant * (TotalAlbedoOf(rw, g, bands) - localAlbedo), 10000)
    + GlobalTemperatureOf(rw, g, bands, lum)

\* the local absorptivity not scaled by the band's luminosity multiplier
GetTemperatureOfAlbedoAtLatitude_unscaled(localAlbedo, latitude, globalTemperature, globalAlbedo) ==
    LET globalAbsorbtivity == ONE - globalAlbedo
        localAbsorbtivity == ONE - localAlbedo
    IN  TruncDiv(conductivityConstant * (localAbsorbtivity - globalAbsorbtivity), 10000)
        + globalTemperature

\* conductivityConstant * (localAbsorbtivity * multiplier - globalAbsorbtivity) + globalTemperature
GetTemperatureOfAlbedoAtLatitude(localAlbedo, latitude, globalTemperature, globalAlbedo) ==
    LET globalAbsorbtivity == ONE - globalAlbedo
        localAbsorbtivity == ONE - localAlbedo
        scaledLocalAbsorbtivity == Mul(localAbsorbtivity, GetLuminosityMultiplierAtLatitude(latitude))
    IN  TruncDiv(conductivityConstant * (scaledLocalAbsorbtivity - globalAbsorbtivity), 10000)
        + globalTemperature

\* two digits of the coefficient swapped: 0.003625
GrowthRateFunction_swappedDigits(localTemperature) ==
    LET d == optimalTemperature - localTemperature
    IN  ONE - MulDiv(d * d, 3625, 10000)

\* the second factor (22.5 - T) left out
GrowthRateFunction_linear(localTemperature) ==
    LET d == optimalTemperature - localTemperature
    IN  ONE - TruncDiv(d * growthCurvature, 100)

\* 1 - 0.003265 * (22.5 - T) * (22.5 - T)
GrowthRateFunction(localTemperature) ==
    LET d == optimalTemperature - localTemperature
    IN  ONE - MulDiv(d * d, growthCurvature, 10000)

\* growth that does not scale with the colour's own proportion
GrowthRateOfColorOnGround_unscaled(proportionOfColor, localTemperature, proportionGround) ==
    Mul(GrowthRateFunction(localTemperature), proportionGround) - Mul(proportionOfColor, deathRate)

\* proportionOfColor * (GrowthRateFunction(localTemperature) * GetProportionGround() - deathRate)
GrowthRateOfColorOnGround(proportionOfColor, localTemperature, proportionGround) ==
    Mul(proportionOfColor, Mul(GrowthRateFunction(localTemperature), proportionGround) - deathRate)

(***************************************************************************)
(* Aggregate proportions                                                   *)
(***************************************************************************)
RECURSIVE SumOverLatitudes(_, _, _)
\* the sum the loop  total += f[latitude] / numberOfLatitudes  adds up over the bands from .. to
\* (split in halves to keep the evaluation shallow)
SumOverLatitudes(f, from, to) ==
    IF from = to THEN TruncDiv(f[from], numberOfLatitudes)
    ELSE LET mid == (from + to) \div 2
         IN  SumOverLatitudes(f, from, mid) + SumOverLatitudes(f, mid + 1, to)

ProportionWhiteOf(rw, g, bands) ==
    IF rw THEN SumOverLatitudes([l \in Latitudes |-> bands[l].proportionWhite], 0, numberOfLatitudes - 1)
          ELSE g.proportionWhite

ProportionBlackOf(rw, g, bands) ==
    IF rw THEN SumOverLatitudes([l \in Latitudes |-> bands[l].proportionBlack], 0, numberOfLatitudes - 1)
          ELSE g.proportionBlack

ProportionGrayOf(rw, g, bands) ==
    IF rw THEN SumOverLatitudes([l \in Latitudes |-> bands[l].proportionGray], 0, numberOfLatitudes - 1)
          ELSE g.proportionGray

ProportionGroundOf(rw, g, bands) ==
    IF rw THEN SumOverLatitudes([l \in Latitudes |-> GC_GetProportionGround(bands[l])], 0, numberOfLatitudes - 1)
          ELSE GC_GetProportionGround(g)

(***************************************************************************)
(* Proportions by displayed latitude.  The loop adds each band's share to  *)
(* totalDaisiesInBand, which the code declares int: every  +=  converts    *)
(* the float sum back to int, truncating toward zero.                      *)
(***************************************************************************)
displayBandWidth == numberOfLatitudes \div numberOfDisplayedLatitudes

DisplayedLatitudes == 0 .. (numberOfDisplayedLatitudes - 1)

\* the internal latitudes the loop of Get*AtLatitude(latitude) visits
InternalLatitudes(latitude) ==
    (numberOfLatitudes - displayBandWidth * latitude - displayBandWidth)
        .. (numberOfLatitudes - displayBandWidth * latitude - 1)

RECURSIVE TotalInBand(_, _, _, _)
\* the loop: total is the int accumulator, f[internalLatitude] the band's float proportion
TotalInBand(f, internalLatitude, to, total) ==
    IF internalLatitude > to THEN total
    ELSE TotalInBand(f, internalLatitude + 1, to,
                     TruncDiv(total * ONE + TruncDiv(f[internalLatitude], displayBandWidth), ONE))

\* the int total returned as a float
ProportionInDisplayBand(f, latitude) ==
    TotalInBand(f, numberOfLatitudes - displayBandWidth * latitude - displayBandWidth,
                numberOfLatitudes - displayBandWidth * latitude - 1, 0) * ONE

GetProportionWhiteAtLatitude(bands, latitude) ==
    ProportionInDisplayBand([l \in Latitudes |-> bands[l].proportionWhite], latitude)

GetProportionBlackAtLatitude(bands, latitude) ==
    ProportionInDisplayBand([l \in Latitudes |-> bands[l].proportionBlack], latitude)

GetProportionGrayAtLatitude(bands, latitude) ==
    ProportionInDisplayBand([l \in Latitudes |-> bands[l].proportionGray], latitude)

GetProportionGroundAtLatitude(bands, latitude) ==
    ProportionInDisplayBand([l \in Latitudes |-> GC_GetProportionGround(bands[l])], latitude)

(***************************************************************************)
(* Habitat statistics.  A float result that may be NaN is a record: isNaN  *)
(* tells whether it is NaN, value is the number otherwise (an average      *)
(* latitude in hundredths of a band).                                      *)
(***************************************************************************)
quiet_NaN == [isNaN |-> TRUE, value |-> 0]

Float(x) == [isNaN |-> FALSE, value |-> x]

\* GetProportion<Colour>() < 0.0001
sparseProportion == 100

RECURSIVE TotalLatitudeProportion(_, _, _)
\* the sum the loop  totalLatitudeProportion += latitude * f[latitude]  adds up over the
\* bands from .. to, in units of 0.00001 (split in halves to keep the evaluation shallow)
TotalLatitudeProportion(f, from, to) ==
    IF from = to THEN TruncDiv(from * f[from], 10)
    ELSE LET mid == (from + to) \div 2
         IN  TotalLatitudeProportion(f, from, mid) + TotalLatitudeProportion(f, mid + 1, to)

\* the same without the final division by numberOfLatitudes
AverageLatitudeOf_undivided(f, proportion) ==
    IF proportion < sparseProportion THEN quiet_NaN
    ELSE Float(MulDiv(TotalLatitudeProportion(f, 0, numberOfLatitudes - 1), 1000, proportion))

\* f holds the colour's proportion in each band, proportion is GetProportion<Colour>()
AverageLatitudeOf(f, proportion) ==
    IF proportion < sparseProportion THEN quiet_NaN
    ELSE Float(TruncDiv(MulDiv(TotalLatitudeProportion(f, 0, numberOfLatitudes - 1), 1000,
                               proportion),
                        numberOfLatitudes))

GetAverageLatitudeOfWhite(rw, g, bands) ==
    AverageLatitudeOf([l \in Latitudes |-> bands[l].proportionWhite], ProportionWhiteOf(rw, g, bands))

GetAverageLatitudeOfBlack(rw, g, bands) ==
    AverageLatitudeOf([l \in Latitudes |-> bands[l].proportionBlack], ProportionBlackOf(rw, g, bands))

GetAverageLatitudeOfGray(rw, g, bands) ==
    AverageLatitudeOf([l \in Latitudes |-> bands[l].proportionGray], ProportionGrayOf(rw, g, bands))

RECURSIVE MaxLatitudeOf(_, _)
\* the downward loop from latitude: the first band with f[latitude] > 0.0, or -1
MaxLatitudeOf(f, latitude) ==
    IF latitude < 0 THEN -1
    ELSE IF f[latitude] > 0 THEN latitude
    ELSE MaxLatitudeOf(f, latitude - 1)

RECURSIVE MinLatitudeOf(_, _)
\* the upward loop from latitude: the first band with f[latitude] > 0.0, or numberOfLatitudes
MinLatitudeOf(f, latitude) ==
    IF latitude >= numberOfLatitudes THEN numberOfLatitudes
    ELSE IF f[latitude] > 0 THEN latitude
    ELSE MinLatitudeOf(f, latitude + 1)

\* the loop started one band too low
GetMaxLatitudeOfWhite_fromBelowTop(bands) ==
    MaxLatitudeOf([l \in Latitudes |-> bands[l].proportionWhite], numberOfLatitudes - 2)

GetMaxLatitudeOfWhite(bands) ==
    MaxLatitudeOf([l \in Latitudes |-> bands[l].proportionWhite], numberOfLatitudes - 1)

GetMaxLatitudeOfBlack(bands) ==
    MaxLatitudeOf([l \in Latitudes |-> bands[l].proportionBlack], numberOfLatitudes - 1)

GetMaxLatitudeOfGray(bands) ==
    MaxLatitudeOf([l \in Latitudes |-> bands[l].proportionGray], numberOfLatitudes - 1)

\* the loop started one band too high
GetMinLatitudeOfWhite_fromOne(bands) ==
    MinLatitudeOf([l \in Latitudes |-> bands[l].proportionWhite], 1)

GetMinLatitudeOfWhite(bands) ==
    MinLatitudeOf([l \in Latitudes |-> bands[l].proportionWhite], 0)

GetMinLatitudeOfBlack(bands) ==
    MinLatitudeOf([l \in Latitudes |-> bands[l].proportionBlack], 0)

GetMinLatitudeOfGray(bands) ==
    MinLatitudeOf([l \in Latitudes |-> bands[l].proportionGray], 0)

(***************************************************************************)
(* Growth rates                                                            *)
(***************************************************************************)
\* growth that does not depend on how much ground is bare
GrowthRateOfColor_bareWorld(proportionOfColor, localTemperature, rw, g, bands) ==
    GrowthRateOfColorOnGround(proportionOfColor, localTemperature, ONE)

GrowthRateOfColor(proportionOfColor, localTemperature, rw, g, bands) ==
    GrowthRateOfColorOnGround(proportionOfColor, localTemperature, ProportionGroundOf(rw, g, bands))

\* white daisies given the local temperature of black ones
WhiteGrowthRate_blackAlbedo(rw, g, bands, lum) ==
    GrowthRateOfColor(ProportionWhiteOf(rw, g, bands),
                      TemperatureOfAlbedoOf(blackAlbedo, rw, g, bands, lum), rw, g, bands)

WhiteGrowthRate(rw, g, bands, lum) ==
    GrowthRateOfColor(ProportionWhiteOf(rw, g, bands),
                      TemperatureOfAlbedoOf(whiteAlbedo, rw, g, bands, lum), rw, g, bands)

\* black daisies given the local temperature of white ones
BlackGrowthRate_whiteAlbedo(rw, g, bands, lum) ==
    GrowthRateOfColor(ProportionBlackOf(rw, g, bands),
                      TemperatureOfAlbedoOf(whiteAlbedo, rw, g, bands, lum), rw, g, bands)

BlackGrowthRate(rw, g, bands, lum) ==
    GrowthRateOfColor(ProportionBlackOf(rw, g, bands),
                      TemperatureOfAlbedoOf(blackAlbedo, rw, g, bands, lum), rw, g, bands)

GrayGrowthRate(rw, g, bands, lum) ==
    GrowthRateOfColor(ProportionGrayOf(rw, g, bands),
                      TemperatureOfAlbedoOf(grayAlbedo, rw, g, bands, lum), rw, g, bands)

GrowthRateOfColorAtLatitude(bands, proportionOfColor, localTemperature, latitude) ==
    GrowthRateOfColorOnGround(proportionOfColor, localTemperature,
                              GC_GetProportionGround(bands[latitude]))

WhiteGrowthRateAtLatitude(bands, latitude, globalTemperature, globalAlbedo) ==
    GrowthRateOfColorAtLatitude(bands, bands[latitude].proportionWhite,
        GetTemperatureOfAlbedoAtLatitude(whiteAlbedo, latitude, globalTemperature, globalAlbedo),
        latitude)

BlackGrowthRateAtLatitude(bands, latitude, globalTemperature, globalAlbedo) ==
    GrowthRateOfColorAtLatitude(bands, bands[latitude].proportionBlack,
        GetTemperatureOfAlbedoAtLatitude(blackAlbedo, latitude, globalTemperature, globalAlbedo),
        latitude)

GrayGrowthRateAtLatitude(bands, latitude, globalTemperature, globalAlbedo) ==
    GrowthRateOfColorAtLatitude(bands, bands[latitude].proportionGray,
        GetTemperatureOfAlbedoAtLatitude(grayAlbedo, latitude, globalTemperature, globalAlbedo),
        latitude)

(***************************************************************************)
(* Update.  The three statements                                           *)
(*     if (<colour>DaisiesEnabled) <cover>.Increment<Colour>Amount(amount) *)
(* are applied in the order given by a sequence of colours; the code's     *)
(* order is CodeColourOrder.  en is the record of the three enable flags.  *)
(***************************************************************************)
Colours == {"White", "Black", "Gray"}

CodeColourOrder == <<"White", "Black", "Gray">>

EnabledFlags(w, b, g) == [White |-> w, Black |-> b, Gray |-> g]

IncrementIfEnabled(gc, colour, amount, en) ==
    IF ~en[colour] THEN gc
    ELSE CASE colour = "White" -> IncrementWhiteAmount(gc, amount[colour])
           [] colour = "Black" -> IncrementBlackAmount(gc, amount[colour])
           [] colour = "Gray"  -> IncrementGrayAmount(gc, amount[colour])

RECURSIVE ApplyGrowthAmounts(_, _, _, _, _)
ApplyGrowthAmounts(gc, amount, en, colourOrder, i) ==
    IF i > Len(colourOrder) THEN gc
    ELSE ApplyGrowthAmounts(IncrementIfEnabled(gc, colourOrder[i], amount, en),
                            amount, en, colourOrder, i + 1)

FlatGrowthAmounts(rw, g, bands, lum) ==
    [White |-> Mul(WhiteGrowthRate(rw, g, bands, lum), timePerUpdate),
     Black |-> Mul(BlackGrowthRate(rw, g, bands, lum), timePerUpdate),
     Gray  |-> Mul(GrayGrowthRate(rw, g, bands, lum), timePerUpdate)]

RECURSIVE UpdateFlatSequentially(_, _, _, _, _, _, _)
\* not the code: every colour's growth amount is computed after the previous colour was incremented
UpdateFlatSequentially(rw, g, bands, lum, en, colourOrder, i) ==
    IF i > Len(colourOrder) THEN g
    ELSE UpdateFlatSequentially(rw,
             IncrementIfEnabled(g, colourOrder[i], FlatGrowthAmounts(rw, g, bands, lum), en),
             bands, lum, en, colourOrder, i + 1)

UpdateDaisyAmountsOnFlatPlanet_sequential(rw, g, bands, lum, en, colourOrder) ==
    UpdateFlatSequentially(rw, g, bands, lum, en, colourOrder, 1)

UpdateDaisyAmountsOnFlatPlanet(rw, g, bands, lum, en, colourOrder) ==
    ApplyGrowthAmounts(g, FlatGrowthAmounts(rw, g, bands, lum), en, colourOrder, 1)

LatitudeGrowthAmounts(bands, latitude, globalTemperature, globalAlbedo) ==
    [White |-> Mul(WhiteGrowthRateAtLatitude(bands, latitude, globalTemperature, globalAlbedo), timePerUpdate),
     Black |-> Mul(BlackGrowthRateAtLatitude(bands, latitude, globalTemperature, globalAlbedo), timePerUpdate),
     Gray  |-> Mul(GrayGrowthRateAtLatitude(bands, latitude, globalTemperature, globalAlbedo), timePerUpdate)]

UpdateDaisyAmountsAtLatitude(bands, latitude, globalTemperature, globalAlbedo, en, colourOrder) ==
    [bands EXCEPT ![latitude] =
        ApplyGrowthAmounts(bands[latitude],
                           LatitudeGrowthAmounts(bands, latitude, globalTemperature, globalAlbedo),
                           en, colourOrder, 1)]

\* the code visits the bands in ascending order
CodeBandOrder == [i \in 1 .. numberOfLatitudes |-> i - 1]

RECURSIVE UpdateLatitudes(_, _, _, _, _, _, _, _)
\* the loop of Update() over the bands, visited in the order bandOrder[from], ..., bandOrder[to]
\* (the first half of the visits, then the second half on what the first half left)
UpdateLatitudes(bands, globalTemperature, globalAlbedo, en, colourOrder, bandOrder, from, to) ==
    IF from = to
    THEN UpdateDaisyAmountsAtLatitude(bands, bandOrder[from], globalTemperature, globalAlbedo,
                                      en, colourOrder)
    ELSE LET mid == (from + to) \div 2
         IN  CHOOSE result \in
                 { UpdateLatitudes(firstHalf, globalTemperature, globalAlbedo, en, colourOrder,
                                   bandOrder, mid + 1, to) :
                   firstHalf \in { UpdateLatitudes(bands, globalTemperature, globalAlbedo, en,
                                                   colourOrder, bandOrder, from, mid) } } : TRUE

\* the round branch of Update(): both globals are read before the loop
UpdateRoundPlanet(g, bands, lum, en, colourOrder, bandOrder) ==
    LET globalTemperature == GlobalTemperatureOf(TRUE, g, bands, lum)
        globalAlbedo == TotalAlbedoOf(TRUE, g, bands)
    IN  UpdateLatitudes(bands, globalTemperature, globalAlbedo, en, colourOrder, bandOrder,
                        1, Len(bandOrder))

(***************************************************************************)
(* BoostDaisiesIfExtinct                                                   *)
(***************************************************************************)
\* the default arguments 0.001 of BoostDaisiesIfExtinctOnRoundWorld
roundWorldBoost == 1000
\* the default arguments 0.01 of BoostDaisiesIfExtinct
flatWorldBoost == 10000

BoostGroundCover(gc, whiteBoost, blackBoost, grayBoost, en) ==
    [proportionWhite |-> IF en.White /\ gc.proportionWhite < whiteBoost
                         THEN whiteBoost ELSE gc.proportionWhite,
     proportionBlack |-> IF en.Black /\ gc.proportionBlack < blackBoost
                         THEN blackBoost ELSE gc.proportionBlack,
     proportionGray  |-> IF en.Gray /\ gc.proportionGray < grayBoost
                         THEN grayBoost ELSE gc.proportionGray]

BoostDaisiesIfExtinctOnRoundWorld(bands, whiteBoost, blackBoost, grayBoost, en) ==
    [latitude \in Latitudes |->
        BoostGroundCover(bands[latitude], whiteBoost, blackBoost, grayBoost, en)]

\* not the code: the enable flags are not consulted
BoostFlatPlanet_ignoringEnabled(rw, g, bands, whiteBoost, blackBoost, grayBoost, en) ==
    [proportionWhite |-> IF ProportionWhiteOf(rw, g, bands) < whiteBoost
                         THEN whiteBoost ELSE g.proportionWhite,
     proportionBlack |-> IF ProportionBlackOf(rw, g, bands) < blackBoost
                         THEN blackBoost ELSE g.proportionBlack,
     proportionGray  |-> IF ProportionGrayOf(rw, g, bands) < grayBoost
                         THEN grayBoost ELSE g.proportionGray]

\* the flat branch of BoostDaisiesIfExtinct; rw is FALSE when it runs
BoostFlatPlanet(rw, g, bands, whiteBoost, blackBoost, grayBoost, en) ==
    [proportionWhite |-> IF en.White /\ ProportionWhiteOf(rw, g, bands) < whiteBoost
                         THEN whiteBoost ELSE g.proportionWhite,
     proportionBlack |-> IF en.Black /\ ProportionBlackOf(rw, g, bands) < blackBoost
                         THEN blackBoost ELSE g.proportionBlack,
     proportionGray  |-> IF en.Gray /\ ProportionGrayOf(rw, g, bands) < grayBoost
                         THEN grayBoost ELSE g.proportionGray]

(***************************************************************************)
(* The driver: the arguments it passes and how many calls it makes         *)
(***************************************************************************)
MaxCalls == 2

\* (white, black, gray) passed to the constructor: non-negative, summing to at most 1
ConstructorProportions ==
    { <<500000, 500000, 0>>, <<0, 0, 0>>, <<300000, 300000, 200000>> }

Luminosities == { 700000, 1000000 }

\* (whiteBoost, blackBoost, grayBoost) passed to BoostDaisiesIfExtinct
BoostArguments == { <<flatWorldBoost, flatWorldBoost, flatWorldBoost>>, <<flatWorldBoost, 0, 0>> }

Call(name, argument) == [op |-> name, arg |-> argument]

NoTrip == <<>>

Enabled == EnabledFlags(whiteDaisiesEnabled, blackDaisiesEnabled, grayDaisiesEnabled)

(***************************************************************************)
(* Queries on the current state                                            *)
(***************************************************************************)
GetTotalAlbedo == TotalAlbedoOf(roundWorld, ground, groundAtLatitudes)

GetGlobalTemperature == GlobalTemperatureOf(roundWorld, ground, groundAtLatitudes, solarLuminosity)

GetProportionWhite == ProportionWhiteOf(roundWorld, ground, groundAtLatitudes)

GetProportionBlack == ProportionBlackOf(roundWorld, ground, groundAtLatitudes)

GetProportionGray == ProportionGrayOf(roundWorld, ground, groundAtLatitudes)

GetProportionGround == ProportionGroundOf(roundWorld, ground, groundAtLatitudes)

AggregateProportions == <<GetProportionWhite, GetProportionBlack, GetProportionGray>>

(***************************************************************************)
(* World::World                                                            *)
(***************************************************************************)
Init ==
    \E p \in ConstructorProportions, _solarLuminosity \in Luminosities, _roundWorld \in BOOLEAN :
        /\ ground = GroundCover(p[1], p[2], p[3])
        /\ groundAtLatitudes = [latitude \in Latitudes |-> DefaultGroundCover]
        /\ solarLuminosity = _solarLuminosity
        /\ roundWorld = _roundWorld
        /\ whiteDaisiesEnabled = TRUE
        /\ blackDaisiesEnabled = TRUE
        /\ grayDaisiesEnabled = FALSE
        /\ daisiesCanGrowAndDie = TRUE
        /\ update = 0
        /\ lastOp = Call("World", <<p[1], p[2], _solarLuminosity, p[3], _roundWorld>>)
        /\ calls = 0
        /\ animator = NoAnimator
        /\ beforeTrip = NoTrip

(***************************************************************************)
(* The operations                                                          *)
(***************************************************************************)
\* not the code: a switch from flat to round copies ground into every band
SetRoundWorld_copying(_roundworld) ==
    /\ calls < MaxCalls
    /\ roundWorld' = _roundworld
    /\ groundAtLatitudes' = IF _roundworld /\ ~roundWorld
                            THEN [latitude \in Latitudes |-> ground]
                            ELSE groundAtLatitudes
    /\ lastOp' = Call("SetRoundWorld", _roundworld)
    /\ calls' = calls + 1
    /\ UNCHANGED animator
    /\ beforeTrip' = IF ~_roundworld
                     THEN (IF roundWorld THEN AggregateProportions ELSE NoTrip)
                     ELSE (IF lastOp = Call("SetRoundWorld", FALSE) THEN beforeTrip ELSE NoTrip)
    /\ UNCHANGED <<ground, solarLuminosity, blackDaisiesEnabled,
                   whiteDaisiesEnabled, grayDaisiesEnabled, daisiesCanGrowAndDie, update>>

SetRoundWorld(_roundworld) ==
    /\ calls < MaxCalls
    /\ roundWorld' = _roundworld
    /\ lastOp' = Call("SetRoundWorld", _roundworld)
    /\ calls' = calls + 1
    /\ UNCHANGED animator
    /\ beforeTrip' = IF ~_roundworld
                     THEN (IF roundWorld THEN AggregateProportions ELSE NoTrip)
                     ELSE (IF lastOp = Call("SetRoundWorld", FALSE) THEN beforeTrip ELSE NoTrip)
    /\ UNCHANGED <<ground, groundAtLatitudes, solarLuminosity, blackDaisiesEnabled,
                   whiteDaisiesEnabled, grayDaisiesEnabled, daisiesCanGrowAndDie, update>>

SetSolarLuminosity(_solarLuminosity) ==
    /\ calls < MaxCalls
    /\ solarLuminosity' = _solarLuminosity
    /\ lastOp' = Call("SetSolarLuminosity", _solarLuminosity)
    /\ calls' = calls + 1
    /\ UNCHANGED animator
    /\ beforeTrip' = NoTrip
    /\ UNCHANGED <<ground, groundAtLatitudes, roundWorld, blackDaisiesEnabled,
                   whiteDaisiesEnabled, grayDaisiesEnabled, daisiesCanGrowAndDie, update>>

SetBlackEnabled(_blackEnabled) ==
    /\ calls < MaxCalls
    /\ blackDaisiesEnabled' = _blackEnabled
    /\ IF ~_blackEnabled
       THEN /\ ground' = [ground EXCEPT !.proportionBlack = 0]
            /\ groundAtLatitudes' = [latitude \in Latitudes |->
                   [groundAtLatitudes[latitude] EXCEPT !.proportionBlack = 0]]
       ELSE UNCHANGED <<ground, groundAtLatitudes>>
    /\ lastOp' = Call("SetBlackEnabled", _blackEnabled)
    /\ calls' = calls + 1
    /\ UNCHANGED animator
    /\ beforeTrip' = NoTrip
    /\ UNCHANGED <<roundWorld, solarLuminosity, whiteDaisiesEnabled, grayDaisiesEnabled,
                   daisiesCanGrowAndDie, update>>

SetWhiteEnabled(_whiteEnabled) ==
    /\ calls < MaxCalls
    /\ whiteDaisiesEnabled' = _whiteEnabled
    /\ IF ~_whiteEnabled
       THEN /\ ground' = [ground EXCEPT !.proportionWhite = 0]
            /\ groundAtLatitudes' = [latitude \in Latitudes |->
                   [groundAtLatitudes[latitude] EXCEPT !.proportionWhite = 0]]
       ELSE UNCHANGED <<ground, groundAtLatitudes>>
    /\ lastOp' = Call("SetWhiteEnabled", _whiteEnabled)
    /\ calls' = calls + 1
    /\ UNCHANGED animator
    /\ beforeTrip' = NoTrip
    /\ UNCHANGED <<roundWorld, solarLuminosity, blackDaisiesEnabled, grayDaisiesEnabled,
                   daisiesCanGrowAndDie, update>>

SetGrayEnabled(_grayEnabled) ==
    /\ calls < MaxCalls
    /\ grayDaisiesEnabled' = _grayEnabled
    /\ IF ~_grayEnabled
       THEN /\ ground' = [ground EXCEPT !.proportionGray = 0]
            /\ groundAtLatitudes' = [latitude \in Latitudes |->
                   [groundAtLatitudes[latitude] EXCEPT !.proportionGray = 0]]
       ELSE UNCHANGED <<ground, groundAtLatitudes>>
    /\ lastOp' = Call("SetGrayEnabled", _grayEnabled)
    /\ calls' = calls + 1
    /\ UNCHANGED animator
    /\ beforeTrip' = NoTrip
    /\ UNCHANGED <<roundWorld, solarLuminosity, blackDaisiesEnabled, whiteDaisiesEnabled,
                   daisiesCanGrowAndDie, update>>

SetDaisyGrowthAndDeath(_daisiesCanGrowAndDie) ==
    /\ calls < MaxCalls
    /\ daisiesCanGrowAndDie' = _daisiesCanGrowAndDie
    /\ lastOp' = Call("SetDaisyGrowthAndDeath", _daisiesCanGrowAndDie)
    /\ calls' = calls + 1
    /\ UNCHANGED animator
    /\ beforeTrip' = NoTrip
    /\ UNCHANGED <<ground, groundAtLatitudes, roundWorld, solarLuminosity, blackDaisiesEnabled,
                   whiteDaisiesEnabled, grayDaisiesEnabled, update>>

\* not the code: daisiesCanGrowAndDie is not consulted
Update_ignoringSwitch ==
    /\ calls < MaxCalls
    /\ update' = update + 1
    /\ IF roundWorld
       THEN /\ groundAtLatitudes' = UpdateRoundPlanet(ground, groundAtLatitudes, solarLuminosity,
                                        Enabled, CodeColourOrder, CodeBandOrder)
            /\ UNCHANGED ground
       ELSE /\ ground' = UpdateDaisyAmountsOnFlatPlanet(roundWorld, ground, groundAtLatitudes,
                             solarLuminosity, Enabled, CodeColourOrder)
            /\ UNCHANGED groundAtLatitudes
    /\ lastOp' = Call("Update", <<>>)
    /\ calls' = calls + 1
    /\ UNCHANGED animator
    /\ beforeTrip' = NoTrip
    /\ UNCHANGED <<roundWorld, solarLuminosity, blackDaisiesEnabled, whiteDaisiesEnabled,
                   grayDaisiesEnabled, daisiesCanGrowAndDie>>

Update ==
    /\ calls < MaxCalls
    /\ update' = update + 1
    /\ IF daisiesCanGrowAndDie
       THEN IF roundWorld
            THEN /\ groundAtLatitudes' = UpdateRoundPlanet(ground, groundAtLatitudes,
                                             solarLuminosity, Enabled, CodeColourOrder, CodeBandOrder)
                 /\ UNCHANGED ground
            ELSE /\ ground' = UpdateDaisyAmountsOnFlatPlanet(roundWorld, ground, groundAtLatitudes,
                                  solarLuminosity, Enabled, CodeColourOrder)
                 /\ UNCHANGED groundAtLatitudes
       ELSE UNCHANGED <<ground, groundAtLatitudes>>
    /\ lastOp' = Call("Update", <<>>)
    /\ calls' = calls + 1
    /\ UNCHANGED animator
    /\ beforeTrip' = NoTrip
    /\ UNCHANGED <<roundWorld, solarLuminosity, blackDaisiesEnabled, whiteDaisiesEnabled,
                   grayDaisiesEnabled, daisiesCanGrowAndDie>>

BoostDaisiesIfExtinct(whiteBoost, blackBoost, grayBoost) ==
    /\ calls < MaxCalls
    /\ IF roundWorld
       THEN /\ groundAtLatitudes' = BoostDaisiesIfExtinctOnRoundWorld(groundAtLatitudes,
                                        roundWorldBoost, roundWorldBoost, roundWorldBoost, Enabled)
            /\ UNCHANGED ground
       ELSE /\ ground' = BoostFlatPlanet(roundWorld, ground, groundAtLatitudes,
                                         whiteBoost, blackBoost, grayBoost, Enabled)
            /\ UNCHANGED groundAtLatitudes
    /\ lastOp' = Call("BoostDaisiesIfExtinct", <<whiteBoost, blackBoost, grayBoost>>)
    /\ calls' = calls + 1
    /\ UNCHANGED animator
    /\ beforeTrip' = NoTrip
    /\ UNCHANGED <<roundWorld, solarLuminosity, blackDaisiesEnabled, whiteDaisiesEnabled,
                   grayDaisiesEnabled, daisiesCanGrowAndDie, update>>

Next ==
    \/ \E _roundworld \in BOOLEAN : SetRoundWorld(_roundworld)
    \/ \E _solarLuminosity \in Luminosities : SetSolarLuminosity(_solarLuminosity)
    \/ \E _blackEnabled \in BOOLEAN : SetBlackEnabled(_blackEnabled)
    \/ \E _whiteEnabled \in BOOLEAN : SetWhiteEnabled(_whiteEnabled)
    \/ \E _grayEnabled \in BOOLEAN : SetGrayEnabled(_grayEnabled)
    \/ \E _daisiesCanGrowAndDie \in BOOLEAN : SetDaisyGrowthAndDeath(_daisiesCanGrowAndDie)
    \/ Update
    \/ \E boost \in BoostArguments : BoostDaisiesIfExtinct(boost[1], boost[2], boost[3])

Spec == Init /\ [][Next]_vars

(***************************************************************************)
(* GroundCover on its own: the three Increment*Amount methods applied to   *)
(* the cover held in ground, with arbitrary deltas.                        *)
(***************************************************************************)
MaxIncrements == 3

IncrementDeltas == { -600000, -1500, -400, 0, 400, 1500 }

IncrementCovers == { GroundCover(500000, 500000, 0), GroundCover(1200, 2000, 0),
                     GroundCover(0, 300000, 200000) }

InitIncrement ==
    /\ ground \in IncrementCovers
    /\ groundAtLatitudes = [latitude \in Latitudes |-> DefaultGroundCover]
    /\ solarLuminosity = ONE
    /\ roundWorld = FALSE
    /\ whiteDaisiesEnabled = TRUE
    /\ blackDaisiesEnabled = TRUE
    /\ grayDaisiesEnabled = FALSE
    /\ daisiesCanGrowAndDie = TRUE
    /\ update = 0
    /\ lastOp = Call("GroundCover", <<ground.proportionWhite, ground.proportionBlack,
                                      ground.proportionGray>>)
    /\ calls = 0
    /\ animator = NoAnimator
    /\ beforeTrip = NoTrip

IncrementStep(name, cover, delta) ==
    /\ calls < MaxIncrements
    /\ ground' = cover
    /\ lastOp' = Call(name, delta)
    /\ calls' = calls + 1
    /\ UNCHANGED animator
    /\ UNCHANGED <<groundAtLatitudes, roundWorld, solarLuminosity, blackDaisiesEnabled,
                   whiteDaisiesEnabled, grayDaisiesEnabled, daisiesCanGrowAndDie, update,
                   beforeTrip>>

CallIncrementWhiteAmount(delta) ==
    IncrementStep("IncrementWhiteAmount", IncrementWhiteAmount(ground, delta), delta)

CallIncrementBlackAmount(delta) ==
    IncrementStep("IncrementBlackAmount", IncrementBlackAmount(ground, delta), delta)

CallIncrementGrayAmount(delta) ==
    IncrementStep("IncrementGrayAmount", IncrementGrayAmount(ground, delta), delta)

NextIncrement ==
    \/ \E delta \in IncrementDeltas : CallIncrementWhiteAmount(delta)
    \/ \E delta \in IncrementDeltas : CallIncrementBlackAmount(delta)
    \/ \E delta \in IncrementDeltas : CallIncrementGrayAmount(delta)

SpecIncrement == InitIncrement /\ [][NextIncrement]_vars

(***************************************************************************)
(* The getters on their own: a world as the constructor, the setters and   *)
(* the updates can leave it, and calls of its const getters, each of which *)
(* records what it returned in lastOp.arg.                                 *)
(***************************************************************************)
MaxQueries == 1

\* bands in which white and gray live on the bands lo .. hi only and black on the others
HabitatBands(lo, hi, p) ==
    [latitude \in Latitudes |->
        IF lo <= latitude /\ latitude <= hi THEN GroundCover(p, 0, p)
                                            ELSE GroundCover(0, p, 0)]

HabitatRanges == { <<0, 0>>, <<0, 89>>, <<30, 59>>, <<76, 76>>, <<80, 89>>, <<89, 89>>, <<45, 44>> }

HabitatProportions == { 1000, 9900, 330000, 450000 }

QueryBands ==
    { HabitatBands(range[1], range[2], p) : range \in HabitatRanges, p \in HabitatProportions }
    \cup { [latitude \in Latitudes |-> DefaultGroundCover] }

QueryCovers ==
    { GroundCover(500000, 500000, 0), GroundCover(0, 0, 0), GroundCover(300000, 300000, 200000),
      GroundCover(100005, 100005, 0), GroundCover(700000, 100000, 0) }

InitQueries ==
    /\ roundWorld \in BOOLEAN
    /\ IF roundWorld
       THEN ground = GroundCover(0, 0, 0) /\ groundAtLatitudes \in QueryBands
       ELSE /\ ground \in QueryCovers
            /\ groundAtLatitudes \in { [latitude \in Latitudes |-> DefaultGroundCover],
                                       HabitatBands(30, 59, 330000) }
    /\ solarLuminosity = ONE
    /\ whiteDaisiesEnabled = TRUE
    /\ blackDaisiesEnabled = TRUE
    /\ grayDaisiesEnabled = TRUE
    /\ daisiesCanGrowAndDie = TRUE
    /\ update = 0
    /\ lastOp = Call("World", <<ground.proportionWhite, ground.proportionBlack, solarLuminosity,
                                ground.proportionGray, roundWorld>>)
    /\ calls = 0
    /\ animator = NoAnimator
    /\ beforeTrip = NoTrip

\* a const getter: nothing of the world changes, the driver holds the returned value
Query(name, returned) ==
    /\ calls < MaxQueries
    /\ lastOp' = Call(name, returned)
    /\ calls' = calls + 1
    /\ UNCHANGED animator
    /\ UNCHANGED <<ground, groundAtLatitudes, roundWorld, solarLuminosity, blackDaisiesEnabled,
                   whiteDaisiesEnabled, grayDaisiesEnabled, daisiesCanGrowAndDie, update,
                   beforeTrip>>

CallGetTotalAlbedo == Query("GetTotalAlbedo", GetTotalAlbedo)

CallGetGlobalTemperature == Query("GetGlobalTemperature", GetGlobalTemperature)

CallGetProportionWhiteAtLatitude(latitude) ==
    Query("GetProportionWhiteAtLatitude",
          <<latitude, GetProportionWhiteAtLatitude(groundAtLatitudes, latitude)>>)

CallGetProportionBlackAtLatitude(latitude) ==
    Query("GetProportionBlackAtLatitude",
          <<latitude, GetProportionBlackAtLatitude(groundAtLatitudes, latitude)>>)

CallGetProportionGrayAtLatitude(latitude) ==
    Query("GetProportionGrayAtLatitude",
          <<latitude, GetProportionGrayAtLatitude(groundAtLatitudes, latitude)>>)

CallGetProportionGroundAtLatitude(latitude) ==
    Query("GetProportionGroundAtLatitude",
          <<latitude, GetProportionGroundAtLatitude(groundAtLatitudes, latitude)>>)

CallGetAverageLatitudeOfWhite ==
    Query("GetAverageLatitudeOfWhite", GetAverageLatitudeOfWhite(roundWorld, ground, groundAtLatitudes))

CallGetAverageLatitudeOfBlack ==
    Query("GetAverageLatitudeOfBlack", GetAverageLatitudeOfBlack(roundWorld, ground, groundAtLatitudes))

CallGetAverageLatitudeOfGray ==
    Query("GetAverageLatitudeOfGray", GetAverageLatitudeOfGray(roundWorld, ground, groundAtLatitudes))

CallGetMaxLatitudeOfWhite == Query("GetMaxLatitudeOfWhite", GetMaxLatitudeOfWhite(groundAtLatitudes))

CallGetMaxLatitudeOfBlack == Query("GetMaxLatitudeOfBlack", GetMaxLatitudeOfBlack(groundAtLatitudes))

CallGetMaxLatitudeOfGray == Query("GetMaxLatitudeOfGray", GetMaxLatitudeOfGray(groundAtLatitudes))

CallGetMinLatitudeOfWhite == Query("GetMinLatitudeOfWhite", GetMinLatitudeOfWhite(groundAtLatitudes))

CallGetMinLatitudeOfBlack == Query("GetMinLatitudeOfBlack", GetMinLatitudeOfBlack(groundAtLatitudes))

CallGetMinLatitudeOfGray == Query("GetMinLatitudeOfGray", GetMinLatitudeOfGray(groundAtLatitudes))

NextQueries ==
    \/ CallGetMaxLatitudeOfWhite
    \/ CallGetMaxLatitudeOfBlack
    \/ CallGetMaxLatitudeOfGray
    \/ CallGetMinLatitudeOfWhite
    \/ CallGetMinLatitudeOfBlack
    \/ CallGetMinLatitudeOfGray
    \/ CallGetAverageLatitudeOfWhite
    \/ CallGetAverageLatitudeOfBlack
    \/ CallGetAverageLatitudeOfGray
    \/ CallGetTotalAlbedo
    \/ CallGetGlobalTemperature
    \/ \E latitude \in DisplayedLatitudes : CallGetProportionWhiteAtLatitude(latitude)
    \/ \E latitude \in DisplayedLatitudes : CallGetProportionBlackAtLatitude(latitude)
    \/ \E latitude \in DisplayedLatitudes : CallGetProportionGrayAtLatitude(latitude)
    \/ \E latitude \in DisplayedLatitudes : CallGetProportionGroundAtLatitude(latitude)

SpecQueries == InitQueries /\ [][NextQueries]_vars

(***************************************************************************)
(* The thermal functions on their own: GrowthRateFunction and              *)
(* GetTemperatureOfAlbedoAtLatitude called with arbitrary arguments, the   *)
(* arguments and the returned value recorded in lastOp.arg.                *)
(***************************************************************************)
\* local temperatures from -100 to 150 degrees in steps of two degrees, and every hundredth
\* of a degree around 22.5, 5, 7.5, 37.5 and 40 degrees
Temperatures ==
    { 200 * k : k \in -50 .. 75 }
    \cup (2240 .. 2260) \cup (490 .. 510) \cup (740 .. 760) \cup (3740 .. 3760) \cup (3990 .. 4010)

GlobalTemperatures == { -1000, 2686 }

GlobalAlbedos == { 475045, 750000 }

LocalAlbedos == { whiteAlbedo, blackAlbedo, grayAlbedo }

InitThermal ==
    /\ ground = GroundCover(500000, 500000, 0)
    /\ groundAtLatitudes = [latitude \in Latitudes |-> DefaultGroundCover]
    /\ solarLuminosity = ONE
    /\ roundWorld = TRUE
    /\ whiteDaisiesEnabled = TRUE
    /\ blackDaisiesEnabled = TRUE
    /\ grayDaisiesEnabled = FALSE
    /\ daisiesCanGrowAndDie = TRUE
    /\ update = 0
    /\ lastOp = Call("World", <<ground.proportionWhite, ground.proportionBlack, solarLuminosity,
                                ground.proportionGray, roundWorld>>)
    /\ calls = 0
    /\ animator = NoAnimator
    /\ beforeTrip = NoTrip

CallGrowthRateFunction(localTemperature) ==
    Query("GrowthRateFunction", <<localTemperature, GrowthRateFunction(localTemperature)>>)

CallGetTemperatureOfAlbedoAtLatitude(localAlbedo, latitude, globalTemperature, globalAlbedo) ==
    Query("GetTemperatureOfAlbedoAtLatitude",
          <<localAlbedo, latitude, globalTemperature, globalAlbedo,
            GetTemperatureOfAlbedoAtLatitude(localAlbedo, latitude, globalTemperature,
                                             globalAlbedo)>>)

NextThermal ==
    \/ \E localTemperature \in Temperatures : CallGrowthRateFunction(localTemperature)
    \/ \E localAlbedo \in LocalAlbedos, latitude \in Latitudes,
          globalTemperature \in GlobalTemperatures, globalAlbedo \in GlobalAlbedos :
            CallGetTemperatureOfAlbedoAtLatitude(localAlbedo, latitude, globalTemperature,
                                                 globalAlbedo)

SpecThermal == InitThermal /\ [][NextThermal]_vars

(***************************************************************************)
(* Properties                                                              *)
(***************************************************************************)
\* a step in which the driver makes the call named name
IsCall(name) == calls' = calls + 1 /\ lastOp'.op = name

ColourOrders ==
    { <<"White", "Black", "Gray">>, <<"White", "Gray", "Black">>, <<"Black", "White", "Gray">>,
      <<"Black", "Gray", "White">>, <<"Gray", "White", "Black">>, <<"Gray", "Black", "White">> }

DescendingBandOrder == [i \in 1 .. numberOfLatitudes |-> numberOfLatitudes - i]

\* the odd bands from the equator down, then the even bands from the pole up
InterleavedBandOrder ==
    [i \in 1 .. numberOfLatitudes |->
        IF 2 * i <= numberOfLatitudes THEN numberOfLatitudes + 1 - 2 * i
                                      ELSE 2 * i - numberOfLatitudes - 2]

\* (colour order, band order) pairs other than the code's own
RoundOrders ==
    { <<CodeColourOrder, DescendingBandOrder>>,
      <<(<<"Gray", "Black", "White">>), CodeBandOrder>>,
      <<(<<"Black", "Gray", "White">>), InterleavedBandOrder>> }

\* C1: an Update() with growth enabled leaves exactly the state that results from processing
\* the colours (flat) or the colours and the bands (round) in any other order.
C1_UpdateIsSimultaneous ==
    [][ (IsCall("Update") /\ daisiesCanGrowAndDie) =>
          IF roundWorld
          THEN \A o \in RoundOrders :
                   groundAtLatitudes' = UpdateRoundPlanet(ground, groundAtLatitudes,
                                            solarLuminosity, Enabled, o[1], o[2])
          ELSE \A colourOrder \in ColourOrders :
                   ground' = UpdateDaisyAmountsOnFlatPlanet(roundWorld, ground, groundAtLatitudes,
                                 solarLuminosity, Enabled, colourOrder) ]_vars

\* an Update() of a flat world has just changed both the white and the black proportion
C1_Witness ==
    /\ lastOp.op = "Update"
    /\ ~roundWorld /\ daisiesCanGrowAndDie
    /\ update = 1 /\ calls = 1
    /\ ground.proportionWhite = 498500
    /\ ground.proportionBlack = 498500

\* C2: every Update() adds exactly 1 to the update counter; with growth disabled it changes
\* nothing else (no proportion, flat or in a band, nor luminosity, enable flags, topology).
C2_UpdateAdvancesClock ==
    [][ IsCall("Update") =>
          /\ update' = update + 1
          /\ ~daisiesCanGrowAndDie =>
                UNCHANGED <<ground, groundAtLatitudes, solarLuminosity, whiteDaisiesEnabled,
                            blackDaisiesEnabled, grayDaisiesEnabled, roundWorld,
                            daisiesCanGrowAndDie>> ]_vars

\* an Update() has run with growth disabled
C2_Witness ==
    lastOp.op = "Update" /\ ~daisiesCanGrowAndDie /\ update >= 1

\* C3: the colour proportions of the flat cover and of every band sum to at most 1, and the
\* bare-ground proportion is never negative.
C3_ProportionsSumToAtMostOne ==
    /\ ground.proportionWhite + ground.proportionBlack + ground.proportionGray <= ONE
    /\ GC_GetProportionGround(ground) >= 0
    /\ \A latitude \in Latitudes :
          /\ groundAtLatitudes[latitude].proportionWhite
             + groundAtLatitudes[latitude].proportionBlack
             + groundAtLatitudes[latitude].proportionGray <= ONE
          /\ GC_GetProportionGround(groundAtLatitudes[latitude]) >= 0

IncrementResult(old, delta) == IF old + delta < extinctionFloor THEN 0 ELSE old + delta

DisabledColoursAreZero ==
    /\ ~whiteDaisiesEnabled =>
          /\ ground.proportionWhite = 0
          /\ \A latitude \in Latitudes : groundAtLatitudes[latitude].proportionWhite = 0
    /\ ~blackDaisiesEnabled =>
          /\ ground.proportionBlack = 0
          /\ \A latitude \in Latitudes : groundAtLatitudes[latitude].proportionBlack = 0
    /\ ~grayDaisiesEnabled =>
          /\ ground.proportionGray = 0
          /\ \A latitude \in Latitudes : groundAtLatitudes[latitude].proportionGray = 0

\* C5: from construction on, a colour whose enable flag is false has proportion 0 in the flat
\* cover and in every band, and Update() never changes the proportion of a disabled colour.
C5_DisabledColoursStayZero ==
    /\ []DisabledColoursAreZero
    /\ [][ IsCall("Update") =>
             /\ ~whiteDaisiesEnabled =>
                   /\ ground'.proportionWhite = ground.proportionWhite
                   /\ \A latitude \in Latitudes :
                         groundAtLatitudes'[latitude].proportionWhite
                            = groundAtLatitudes[latitude].proportionWhite
             /\ ~blackDaisiesEnabled =>
                   /\ ground'.proportionBlack = ground.proportionBlack
                   /\ \A latitude \in Latitudes :
                         groundAtLatitudes'[latitude].proportionBlack
                            = groundAtLatitudes[latitude].proportionBlack
             /\ ~grayDaisiesEnabled =>
                   /\ ground'.proportionGray = ground.proportionGray
                   /\ \A latitude \in Latitudes :
                         groundAtLatitudes'[latitude].proportionGray
                            = groundAtLatitudes[latitude].proportionGray ]_vars

BandsEqualGround ==
    \A latitude \in Latitudes : groundAtLatitudes[latitude] = ground

\* C6: a world constructed round, and a flat world right after SetRoundWorld(true), has in every
\* band the white, black and gray proportions of the flat ground cover.
C6_RoundCopiesFlat ==
    /\ roundWorld => BandsEqualGround
    /\ [][ (IsCall("SetRoundWorld") /\ ~roundWorld /\ roundWorld') => BandsEqualGround' ]_vars

\* C7: right after SetRoundWorld(false) on a round world, GetProportionWhite/Black/Gray return
\* what they returned right before it (the mean over the bands).
C7_FlatConservesAggregate ==
    [][ (IsCall("SetRoundWorld") /\ roundWorld /\ ~roundWorld') =>
          AggregateProportions' = AggregateProportions ]_vars

UniformBands ==
    \A latitude \in Latitudes : groundAtLatitudes[latitude] = groundAtLatitudes[0]

\* C8: after SetRoundWorld(false) then SetRoundWorld(true) on a round world with identical
\* bands, each colour's aggregate proportion is within 0.00001 of its value before the two calls.
C8_RoundTrip ==
    (lastOp = Call("SetRoundWorld", TRUE) /\ beforeTrip # NoTrip /\ UniformBands) =>
        \A colour \in 1 .. 3 : Abs(AggregateProportions[colour] - beforeTrip[colour]) <= 10

\* a round world with identical, non-empty bands has just been switched to flat and back
C8_Witness ==
    /\ lastOp = Call("SetRoundWorld", TRUE)
    /\ beforeTrip # NoTrip
    /\ UniformBands
    /\ roundWorld
    /\ GetProportionWhite > 0
    /\ ground # groundAtLatitudes[0]

\* C9: in flat mode BoostDaisiesIfExtinct(w, b, g) sets each enabled colour below its threshold
\* to exactly the threshold and leaves every other colour, the luminosity, the update counter
\* and the bands unchanged.
C9_FlatBoost ==
    [][ (IsCall("BoostDaisiesIfExtinct") /\ ~roundWorld) =>
          /\ ground'.proportionWhite =
                IF whiteDaisiesEnabled /\ ground.proportionWhite < lastOp'.arg[1]
                THEN lastOp'.arg[1] ELSE ground.proportionWhite
          /\ ground'.proportionBlack =
                IF blackDaisiesEnabled /\ ground.proportionBlack < lastOp'.arg[2]
                THEN lastOp'.arg[2] ELSE ground.proportionBlack
          /\ ground'.proportionGray =
                IF grayDaisiesEnabled /\ ground.proportionGray < lastOp'.arg[3]
                THEN lastOp'.arg[3] ELSE ground.proportionGray
          /\ UNCHANGED <<solarLuminosity, update, groundAtLatitudes>> ]_vars

\* a flat boost has raised white and black from 0 to exactly 0.01 and left the disabled gray at 0
C9_Witness ==
    /\ lastOp = Call("BoostDaisiesIfExtinct", <<flatWorldBoost, flatWorldBoost, flatWorldBoost>>)
    /\ ~roundWorld
    /\ calls = 1
    /\ ground = GroundCover(flatWorldBoost, flatWorldBoost, 0)
    /\ blackDaisiesEnabled /\ ~grayDaisiesEnabled

\* C10: in round mode BoostDaisiesIfExtinct(w, b, g) leaves unchanged, in every band, a colour
\* that is disabled or whose aggregate proportion is at or above the threshold passed for it.
C10_RoundBoostUsesArguments ==
    [][ (IsCall("BoostDaisiesIfExtinct") /\ roundWorld) =>
          /\ ~(whiteDaisiesEnabled /\ GetProportionWhite < lastOp'.arg[1]) =>
                \A latitude \in Latitudes :
                    groundAtLatitudes'[latitude].proportionWhite
                       = groundAtLatitudes[latitude].proportionWhite
          /\ ~(blackDaisiesEnabled /\ GetProportionBlack < lastOp'.arg[2]) =>
                \A latitude \in Latitudes :
                    groundAtLatitudes'[latitude].proportionBlack
                       = groundAtLatitudes[latitude].proportionBlack
          /\ ~(grayDaisiesEnabled /\ GetProportionGray < lastOp'.arg[3]) =>
                \A latitude \in Latitudes :
                    groundAtLatitudes'[latitude].proportionGray
                       = groundAtLatitudes[latitude].proportionGray ]_vars

\* the growth rates Update() computes for the three colours of the flat cover
FlatGrowthRates ==
    <<WhiteGrowthRate(roundWorld, ground, groundAtLatitudes, solarLuminosity),
      BlackGrowthRate(roundWorld, ground, groundAtLatitudes, solarLuminosity),
      GrayGrowthRate(roundWorld, ground, groundAtLatitudes, solarLuminosity)>>

\* C11: the growth rate of a colour at proportion 0 is 0, and a colour at exactly 0 in the
\* flat cover or in a band is still at exactly 0 after an Update() or a SetSolarLuminosity().
C11_ExtinctionIsAbsorbing ==
    [][ (IsCall("Update") \/ IsCall("SetSolarLuminosity")) =>
          /\ ground.proportionWhite = 0 =>
                (ground'.proportionWhite = 0 /\ (~roundWorld => FlatGrowthRates[1] = 0))
          /\ ground.proportionBlack = 0 =>
                (ground'.proportionBlack = 0 /\ (~roundWorld => FlatGrowthRates[2] = 0))
          /\ ground.proportionGray = 0 =>
                (ground'.proportionGray = 0 /\ (~roundWorld => FlatGrowthRates[3] = 0))
          /\ \A latitude \in Latitudes :
                /\ groundAtLatitudes[latitude].proportionWhite = 0 =>
                      groundAtLatitudes'[latitude].proportionWhite = 0
                /\ groundAtLatitudes[latitude].proportionBlack = 0 =>
                      groundAtLatitudes'[latitude].proportionBlack = 0
                /\ groundAtLatitudes[latitude].proportionGray = 0 =>
                      groundAtLatitudes'[latitude].proportionGray = 0
          /\ roundWorld =>
                \A globalTemperature \in {GetGlobalTemperature} : \A globalAlbedo \in {GetTotalAlbedo} :
                  \A latitude \in Latitudes :
                    /\ groundAtLatitudes[latitude].proportionWhite = 0 =>
                          WhiteGrowthRateAtLatitude(groundAtLatitudes, latitude,
                                                    globalTemperature, globalAlbedo) = 0
                    /\ groundAtLatitudes[latitude].proportionBlack = 0 =>
                          BlackGrowthRateAtLatitude(groundAtLatitudes, latitude,
                                                    globalTemperature, globalAlbedo) = 0
                    /\ groundAtLatitudes[latitude].proportionGray = 0 =>
                          GrayGrowthRateAtLatitude(groundAtLatitudes, latitude,
                                                   globalTemperature, globalAlbedo) = 0 ]_vars

\* an Update() of a round world has run with gray enabled, growth on and gray at 0 in every band
C11_Witness ==
    /\ lastOp.op = "Update"
    /\ roundWorld /\ daisiesCanGrowAndDie /\ grayDaisiesEnabled
    /\ update = 1
    /\ \A latitude \in Latitudes :
          /\ groundAtLatitudes[latitude].proportionGray = 0
          /\ GC_GetProportionGround(groundAtLatitudes[latitude]) > 0

RECURSIVE InsolationWeightedAlbedo(_, _, _)
\* the sum over the bands from .. to of InsolationMultiplier(i) / N * albedo(band i)
InsolationWeightedAlbedo(bands, from, to) ==
    IF from = to
    THEN TruncDiv(Mul(GetLuminosityMultiplierAtLatitude(from), GC_GetTotalAlbedo(bands[from])),
                  numberOfLatitudes)
    ELSE LET mid == (from + to) \div 2
         IN  InsolationWeightedAlbedo(bands, from, mid)
             + InsolationWeightedAlbedo(bands, mid + 1, to)

\* the mean of the 90 insolation multipliers (1.05)
MeanInsolationMultiplier ==
    SumOverLatitudes([latitude \in Latitudes |-> GetLuminosityMultiplierAtLatitude(latitude)],
                     0, numberOfLatitudes - 1)

\* C12 as stated: the round-mode GetTotalAlbedo() is, within 0.0002, the sum over the bands of
\* InsolationMultiplier(i) / N * albedo(band i).
C12_RoundAlbedoIsWeightedMean ==
    (lastOp.op = "GetTotalAlbedo" /\ roundWorld) =>
        Abs(lastOp.arg - InsolationWeightedAlbedo(groundAtLatitudes, 0, numberOfLatitudes - 1)) <= 200

\* C12 amended: the round-mode GetTotalAlbedo() is, within 0.0002, one minus the
\* insolation-weighted absorption, that is the stated sum less the excess 0.05 of the mean
\* multiplier over 1.
C12_RoundAlbedoIsOneMinusWeightedAbsorbsion ==
    (lastOp.op = "GetTotalAlbedo" /\ roundWorld) =>
        Abs(lastOp.arg - (InsolationWeightedAlbedo(groundAtLatitudes, 0, numberOfLatitudes - 1)
                          - (MeanInsolationMultiplier - ONE))) <= 200

\* GetTotalAlbedo() has returned on a round world whose bands differ in albedo
C12_Witness ==
    /\ lastOp.op = "GetTotalAlbedo"
    /\ roundWorld
    /\ GC_GetTotalAlbedo(groundAtLatitudes[0]) # GC_GetTotalAlbedo(groundAtLatitudes[89])
    /\ lastOp.arg > 0 /\ lastOp.arg < ONE

\* the unweighted mean of f over the internal bands of displayed latitude d
MeanOverDisplayBand(f, d) ==
    LET lo == numberOfLatitudes - 9 * (d + 1)
        Sum[l \in lo .. (lo + 8)] == f[l] + (IF l = lo THEN 0 ELSE Sum[l - 1])
    IN  Sum[lo + 8] \div 9

\* C13: on a round world GetProportion<Colour|Ground>AtLatitude(d), d in 0 .. 9, returns
\* (within 0.00001) the unweighted mean of the proportion over the internal bands
\* 90 - 9(d+1) .. 90 - 9d - 1; display band 0 is the nine most equatorial bands, and the ten
\* ranges partition the 90 bands.
C13_DisplayBandIsMean ==
    /\ (roundWorld /\ lastOp.op = "GetProportionWhiteAtLatitude") =>
          Abs(lastOp.arg[2] - MeanOverDisplayBand(
                [l \in Latitudes |-> groundAtLatitudes[l].proportionWhite], lastOp.arg[1])) <= 10
    /\ (roundWorld /\ lastOp.op = "GetProportionBlackAtLatitude") =>
          Abs(lastOp.arg[2] - MeanOverDisplayBand(
                [l \in Latitudes |-> groundAtLatitudes[l].proportionBlack], lastOp.arg[1])) <= 10
    /\ (roundWorld /\ lastOp.op = "GetProportionGrayAtLatitude") =>
          Abs(lastOp.arg[2] - MeanOverDisplayBand(
                [l \in Latitudes |-> groundAtLatitudes[l].proportionGray], lastOp.arg[1])) <= 10
    /\ (roundWorld /\ lastOp.op = "GetProportionGroundAtLatitude") =>
          Abs(lastOp.arg[2] - MeanOverDisplayBand(
                [l \in Latitudes |-> GC_GetProportionGround(groundAtLatitudes[l])],
                lastOp.arg[1])) <= 10
    /\ InternalLatitudes(0) = 81 .. 89
    /\ \A l \in Latitudes :
          Cardinality({ d \in DisplayedLatitudes : l \in InternalLatitudes(d) }) = 1

\* the centroid  sum of i * f[i]  over  sum of f[i], in hundredths of a band, the proportions
\* taken in units of 0.00001
Centroid(f) ==
    LET Weighted[l \in Latitudes] == l * (f[l] \div 10) + (IF l = 0 THEN 0 ELSE Weighted[l - 1])
        Total[l \in Latitudes] == (f[l] \div 10) + (IF l = 0 THEN 0 ELSE Total[l - 1])
    IN  MulDiv(Weighted[numberOfLatitudes - 1], 100, Total[numberOfLatitudes - 1])

\* returned is NaN exactly when proportion is below 0.0001 and otherwise within 2 percent
\* of the centroid of f
IsCentroidUnlessSparse(returned, f, proportion) ==
    /\ returned.isNaN <=> proportion < 100
    /\ ~returned.isNaN =>
          Abs(returned.value - Centroid(f)) <= Centroid(f) \div 50 + 1

\* C14: in round mode GetAverageLatitudeOf<Colour>() returns NaN exactly when the colour's
\* total proportion GetProportion<Colour>() is below 0.0001, and otherwise the centroid
\* (sum of i * proportion[i]) / (sum of proportion[i]) as a band index.
C14_AverageLatitudeIsCentroid ==
    /\ (roundWorld /\ lastOp.op = "GetAverageLatitudeOfWhite") =>
          IsCentroidUnlessSparse(lastOp.arg,
              [l \in Latitudes |-> groundAtLatitudes[l].proportionWhite], GetProportionWhite)
    /\ (roundWorld /\ lastOp.op = "GetAverageLatitudeOfBlack") =>
          IsCentroidUnlessSparse(lastOp.arg,
              [l \in Latitudes |-> groundAtLatitudes[l].proportionBlack], GetProportionBlack)
    /\ (roundWorld /\ lastOp.op = "GetAverageLatitudeOfGray") =>
          IsCentroidUnlessSparse(lastOp.arg,
              [l \in Latitudes |-> groundAtLatitudes[l].proportionGray], GetProportionGray)

\* GetAverageLatitudeOfWhite() has returned a latitude for white living on the ten most
\* equatorial bands only
C14_Witness ==
    /\ lastOp.op = "GetAverageLatitudeOfWhite"
    /\ roundWorld
    /\ ~lastOp.arg.isNaN
    /\ lastOp.arg.value >= 8000
    /\ groundAtLatitudes[79].proportionWhite = 0

\* the bands in which f is nonzero
Habitat(f) == { l \in Latitudes : f[l] # 0 }

\* returned is the highest band of the habitat of f, or -1 when the habitat is empty
IsMaxLatitude(returned, f) ==
    IF Habitat(f) = {} THEN returned = -1
    ELSE returned \in Habitat(f) /\ \A l \in Habitat(f) : l <= returned

\* returned is the lowest band of the habitat of f, or 90 when the habitat is empty
IsMinLatitude(returned, f) ==
    IF Habitat(f) = {} THEN returned = 90
    ELSE returned \in Habitat(f) /\ \A l \in Habitat(f) : returned <= l

\* min and max are both sentinels or neither is, and min <= max when the habitat is not empty
MinAndMaxAgree(min, max, f) ==
    /\ min = 90 <=> max = -1
    /\ Habitat(f) # {} => min <= max

\* C15: GetMinLatitudeOf<Colour>() and GetMaxLatitudeOf<Colour>() return the lowest and the
\* highest band with a nonzero proportion of the colour, 90 and -1 when there is none; min is
\* 90 exactly when max is -1, and min <= max when the colour is present.
C15_MinMaxLatitude ==
    LET white == [l \in Latitudes |-> groundAtLatitudes[l].proportionWhite]
        black == [l \in Latitudes |-> groundAtLatitudes[l].proportionBlack]
        gray == [l \in Latitudes |-> groundAtLatitudes[l].proportionGray]
    IN  /\ lastOp.op = "GetMaxLatitudeOfWhite" =>
              /\ IsMaxLatitude(lastOp.arg, white)
              /\ MinAndMaxAgree(GetMinLatitudeOfWhite(groundAtLatitudes), lastOp.arg, white)
        /\ lastOp.op = "GetMaxLatitudeOfBlack" =>
              /\ IsMaxLatitude(lastOp.arg, black)
              /\ MinAndMaxAgree(GetMinLatitudeOfBlack(groundAtLatitudes), lastOp.arg, black)
        /\ lastOp.op = "GetMaxLatitudeOfGray" =>
              /\ IsMaxLatitude(lastOp.arg, gray)
              /\ MinAndMaxAgree(GetMinLatitudeOfGray(groundAtLatitudes), lastOp.arg, gray)
        /\ lastOp.op = "GetMinLatitudeOfWhite" =>
              /\ IsMinLatitude(lastOp.arg, white)
              /\ MinAndMaxAgree(lastOp.arg, GetMaxLatitudeOfWhite(groundAtLatitudes), white)
        /\ lastOp.op = "GetMinLatitudeOfBlack" =>
              /\ IsMinLatitude(lastOp.arg, black)
              /\ MinAndMaxAgree(lastOp.arg, GetMaxLatitudeOfBlack(groundAtLatitudes), black)
        /\ lastOp.op = "GetMinLatitudeOfGray" =>
              /\ IsMinLatitude(lastOp.arg, gray)
              /\ MinAndMaxAgree(lastOp.arg, GetMaxLatitudeOfGray(groundAtLatitudes), gray)

\* GetMinLatitudeOfWhite() has returned band 0 on a round world where white lives in band 0 only
C15_Witness ==
    /\ lastOp = Call("GetMinLatitudeOfWhite", 0)
    /\ roundWorld
    /\ GetMaxLatitudeOfWhite(groundAtLatitudes) = 0
    /\ GetMinLatitudeOfBlack(groundAtLatitudes) = 1

\* |T - 22.5|
FromOptimum(localTemperature) == Abs(localTemperature - optimalTemperature)

C17_NegativeOutsideSevenAndAHalf ==
    lastOp.op = "GrowthRateFunction" =>
        IF lastOp.arg[1] < 750 \/ lastOp.arg[1] > 3750
        THEN lastOp.arg[2] < 0
        ELSE lastOp.arg[2] >= 0

\* C17 amended: GrowthRateFunction(T) is non-negative for every T in [5, 40] and negative for
\* every T at or below 4.99 and at or above 40.01.
C17_NegativeOutsideFive ==
    lastOp.op = "GrowthRateFunction" =>
        /\ (500 <= lastOp.arg[1] /\ lastOp.arg[1] <= 4000) => lastOp.arg[2] >= 0
        /\ (lastOp.arg[1] <= 499 \/ lastOp.arg[1] >= 4001) => lastOp.arg[2] < 0

\* GrowthRateFunction has returned a value that is still positive at 5 degrees, below 7.5
C17_Witness ==
    /\ lastOp.op = "GrowthRateFunction"
    /\ lastOp.arg[1] = 500
    /\ lastOp.arg[2] > 0

\* C18 as stated: in a flat world with equal white and black proportions GetTotalAlbedo()
\* returns exactly 0.5 whatever the gray proportion, and at luminosity 1
\* GetGlobalTemperature() returns a value between 26 and 27.
C18_EqualDaisiesGiveExactlyHalf ==
    (~roundWorld /\ ground.proportionWhite = ground.proportionBlack) =>
        /\ lastOp.op = "GetTotalAlbedo" => lastOp.arg = 500000
        /\ (lastOp.op = "GetGlobalTemperature" /\ solarLuminosity = ONE) =>
              (2600 <= lastOp.arg /\ lastOp.arg <= 2700)

\* C18 amended: in a flat world with equal white and black proportions GetTotalAlbedo()
\* returns 0.5 to within 0.00001 whatever the gray proportion, exactly 0.5 for 0.5 / 0.5, and
\* at luminosity 1 GetGlobalTemperature() returns a value between 26 and 27.
C18_EqualDaisiesGiveHalf ==
    (~roundWorld /\ ground.proportionWhite = ground.proportionBlack) =>
        /\ lastOp.op = "GetTotalAlbedo" =>
              /\ Abs(lastOp.arg - 500000) <= 10
              /\ ground = GroundCover(500000, 500000, 0) => lastOp.arg = 500000
        /\ (lastOp.op = "GetGlobalTemperature" /\ solarLuminosity = ONE) =>
              (2600 <= lastOp.arg /\ lastOp.arg <= 2700)

\* GetGlobalTemperature() has returned on a flat world with white 0.3, black 0.3 and gray 0.2
C18_Witness ==
    /\ lastOp.op = "GetGlobalTemperature"
    /\ ~roundWorld
    /\ ground = GroundCover(300000, 300000, 200000)
    /\ solarLuminosity = ONE
    /\ lastOp.arg > 2600

\* C20: for a fixed colour, global temperature and global albedo, the temperature
\* GetTemperatureOfAlbedoAtLatitude returns for a band is strictly below the one it returns for
\* every band of higher index, from band 0 (multiplier 0.6) to band 89 (multiplier 1.5).
C20_PolewardIsCooler ==
    lastOp.op = "GetTemperatureOfAlbedoAtLatitude" =>
        /\ GetLuminosityMultiplierAtLatitude(0) = 600000
        /\ GetLuminosityMultiplierAtLatitude(89) = 1500000
        /\ \A equatorward \in Latitudes :
              equatorward > lastOp.arg[2] =>
                  lastOp.arg[5] < GetTemperatureOfAlbedoAtLatitude(lastOp.arg[1], equatorward,
                                                                   lastOp.arg[3], lastOp.arg[4])

\* GetTemperatureOfAlbedoAtLatitude has returned the temperature of white daisies in band
\* 88, which is below that of band 89
C20_Witness ==
    /\ lastOp.op = "GetTemperatureOfAlbedoAtLatitude"
    /\ lastOp.arg[1] = whiteAlbedo
    /\ lastOp.arg[2] = 88
    /\ lastOp.arg[5] < GetTemperatureOfAlbedoAtLatitude(whiteAlbedo, 89, lastOp.arg[3],
                                                         lastOp.arg[4])

(***************************************************************************)
(* The methods of World as the programs of native.cpp and web.cpp call     *)
(* them: one call after another, as many as the program makes.             *)
(***************************************************************************)
World_Update ==
    /\ update' = update + 1
    /\ IF daisiesCanGrowAndDie
       THEN IF roundWorld
            THEN /\ groundAtLatitudes' = UpdateRoundPlanet(ground, groundAtLatitudes,
                                             solarLuminosity, Enabled, CodeColourOrder, CodeBandOrder)
                 /\ UNCHANGED ground
            ELSE /\ ground' = UpdateDaisyAmountsOnFlatPlanet(roundWorld, ground, groundAtLatitudes,
                                  solarLuminosity, Enabled, CodeColourOrder)
                 /\ UNCHANGED groundAtLatitudes
       ELSE UNCHANGED <<ground, groundAtLatitudes>>
    /\ lastOp' = Call("Update", <<>>)
    /\ calls' = calls + 1
    /\ UNCHANGED <<roundWorld, solarLuminosity, blackDaisiesEnabled, whiteDaisiesEnabled,
                   grayDaisiesEnabled, daisiesCanGrowAndDie, beforeTrip>>

World_SetSolarLuminosity(_solarLuminosity) ==
    /\ solarLuminosity' = _solarLuminosity
    /\ lastOp' = Call("SetSolarLuminosity", _solarLuminosity)
    /\ calls' = calls + 1
    /\ UNCHANGED <<ground, groundAtLatitudes, roundWorld, blackDaisiesEnabled,
                   whiteDaisiesEnabled, grayDaisiesEnabled, daisiesCanGrowAndDie, update,
                   beforeTrip>>

\* not the code: only the cover of the current topology is cleared
World_SetWhiteEnabled_currentTopology(_whiteEnabled) ==
    /\ whiteDaisiesEnabled' = _whiteEnabled
    /\ IF ~_whiteEnabled
       THEN IF roundWorld
            THEN /\ groundAtLatitudes' = [latitude \in Latitudes |->
                        [groundAtLatitudes[latitude] EXCEPT !.proportionWhite = 0]]
                 /\ UNCHANGED ground
            ELSE /\ ground' = [ground EXCEPT !.proportionWhite = 0]
                 /\ UNCHANGED groundAtLatitudes
       ELSE UNCHANGED <<ground, groundAtLatitudes>>
    /\ lastOp' = Call("SetWhiteEnabled", _whiteEnabled)
    /\ calls' = calls + 1
    /\ UNCHANGED <<roundWorld, solarLuminosity, blackDaisiesEnabled, grayDaisiesEnabled,
                   daisiesCanGrowAndDie, update, beforeTrip>>

World_SetWhiteEnabled(_whiteEnabled) ==
    /\ whiteDaisiesEnabled' = _whiteEnabled
    /\ IF ~_whiteEnabled
       THEN /\ ground' = [ground EXCEPT !.proportionWhite = 0]
            /\ groundAtLatitudes' = [latitude \in Latitudes |->
                   [groundAtLatitudes[latitude] EXCEPT !.proportionWhite = 0]]
       ELSE UNCHANGED <<ground, groundAtLatitudes>>
    /\ lastOp' = Call("SetWhiteEnabled", _whiteEnabled)
    /\ calls' = calls + 1
    /\ UNCHANGED <<roundWorld, solarLuminosity, blackDaisiesEnabled, grayDaisiesEnabled,
                   daisiesCanGrowAndDie, update, beforeTrip>>

World_SetBlackEnabled(_blackEnabled) ==
    /\ blackDaisiesEnabled' = _blackEnabled
    /\ IF ~_blackEnabled
       THEN /\ ground' = [ground EXCEPT !.proportionBlack = 0]
            /\ groundAtLatitudes' = [latitude \in Latitudes |->
                   [groundAtLatitudes[latitude] EXCEPT !.proportionBlack = 0]]
       ELSE UNCHANGED <<ground, groundAtLatitudes>>
    /\ lastOp' = Call("SetBlackEnabled", _blackEnabled)
    /\ calls' = calls + 1
    /\ UNCHANGED <<roundWorld, solarLuminosity, whiteDaisiesEnabled, grayDaisiesEnabled,
                   daisiesCanGrowAndDie, update, beforeTrip>>

World_SetGrayEnabled(_grayEnabled) ==
    /\ grayDaisiesEnabled' = _grayEnabled
    /\ IF ~_grayEnabled
       THEN /\ ground' = [ground EXCEPT !.proportionGray = 0]
            /\ groundAtLatitudes' = [latitude \in Latitudes |->
                   [groundAtLatitudes[latitude] EXCEPT !.proportionGray = 0]]
       ELSE UNCHANGED <<ground, groundAtLatitudes>>
    /\ lastOp' = Call("SetGrayEnabled", _grayEnabled)
    /\ calls' = calls + 1
    /\ UNCHANGED <<roundWorld, solarLuminosity, blackDaisiesEnabled, whiteDaisiesEnabled,
                   daisiesCanGrowAndDie, update, beforeTrip>>

\* BoostDaisiesIfExtinct() with its default arguments
World_BoostDaisiesIfExtinct ==
    /\ IF roundWorld
       THEN /\ groundAtLatitudes' = BoostDaisiesIfExtinctOnRoundWorld(groundAtLatitudes,
                                        roundWorldBoost, roundWorldBoost, roundWorldBoost, Enabled)
            /\ UNCHANGED ground
       ELSE /\ ground' = BoostFlatPlanet(roundWorld, ground, groundAtLatitudes,
                                         flatWorldBoost, flatWorldBoost, flatWorldBoost, Enabled)
            /\ UNCHANGED groundAtLatitudes
    /\ lastOp' = Call("BoostDaisiesIfExtinct", <<flatWorldBoost, flatWorldBoost, flatWorldBoost>>)
    /\ calls' = calls + 1
    /\ UNCHANGED <<roundWorld, solarLuminosity, blackDaisiesEnabled, whiteDaisiesEnabled,
                   grayDaisiesEnabled, daisiesCanGrowAndDie, update, beforeTrip>>

\* the world World(white, black, luminosity, gray, round) right after its construction
Constructed(_proportionWhite, _proportionBlack, _solarLuminosity, _proportionGray, _roundWorld) ==
    /\ ground = GroundCover(_proportionWhite, _proportionBlack, _proportionGray)
    /\ groundAtLatitudes = [latitude \in Latitudes |-> DefaultGroundCover]
    /\ solarLuminosity = _solarLuminosity
    /\ roundWorld = _roundWorld
    /\ whiteDaisiesEnabled = TRUE
    /\ blackDaisiesEnabled = TRUE
    /\ grayDaisiesEnabled = FALSE
    /\ daisiesCanGrowAndDie = TRUE
    /\ update = 0
    /\ lastOp = Call("World", <<_proportionWhite, _proportionBlack, _solarLuminosity,
                                _proportionGray, _roundWorld>>)
    /\ calls = 0
    /\ beforeTrip = NoTrip

(***************************************************************************)
(* native.cpp, Tests 2 and 3: TestConstantLuminosityOnlyBlack and          *)
(* TestConstantLuminosityBlackAndWhite.  Each constructs a world at        *)
(* luminosity 1 and calls Update() in a loop; the first one disables white *)
(* before the loop.  The run goes on for MaxUpdates updates.               *)
(***************************************************************************)
MaxUpdates == 10100

OnlyBlackWorld == Call("World", <<0, 500000, ONE, 0, FALSE>>)

BlackAndWhiteWorld == Call("World", <<500000, 500000, ONE, 0, FALSE>>)

InitConstantLuminosity ==
    /\ \/ Constructed(0, 500000, ONE, 0, FALSE)
       \/ Constructed(500000, 500000, ONE, 0, FALSE)
    /\ animator = NoAnimator

\* world.SetWhiteEnabled(false) of TestConstantLuminosityOnlyBlack
OnlyBlack_SetWhiteEnabled ==
    /\ lastOp = OnlyBlackWorld
    /\ World_SetWhiteEnabled(FALSE)
    /\ UNCHANGED animator

\* one turn of the loops of the two tests
ConstantLuminosity_Update ==
    /\ lastOp # OnlyBlackWorld
    /\ update < MaxUpdates
    /\ World_Update
    /\ UNCHANGED animator

NextConstantLuminosity ==
    \/ OnlyBlack_SetWhiteEnabled
    \/ ConstantLuminosity_Update

SpecConstantLuminosity == InitConstantLuminosity /\ [][NextConstantLuminosity]_vars

\* the run of TestConstantLuminosityOnlyBlack / of TestConstantLuminosityBlackAndWhite
OnlyBlackRun == ~whiteDaisiesEnabled

BlackAndWhiteRun == whiteDaisiesEnabled /\ lastOp # OnlyBlackWorld

\* C23: End-to-end, black only: in the run of World(0, 0.5, 1) with white disabled,
\* from the 10,000th Update() on the black proportion is within 0.05 of 0.15 and the
\* global temperature within 5 degrees of 35, and every further update keeps them there.
C23_BlackOnlySettles ==
    (OnlyBlackRun /\ update >= 10000) =>
        /\ Abs(GetProportionBlack - 150000) <= 50000
        /\ Abs(GetGlobalTemperature - 3500) <= 500
        /\ GetProportionWhite = 0
        /\ GetProportionGray = 0

C23_Witness ==
    /\ OnlyBlackRun
    /\ update = 10001
    /\ lastOp = Call("Update", <<>>)
    /\ GetProportionBlack > 0

\* C24: End-to-end, black and white: in the run of World(0.5, 0.5, 1), after 10,000
\* Update() calls black is within 0.05 of 0.3, white within 0.05 of 0.4 and the global
\* temperature within 3 degrees of 22.
C24_BlackAndWhiteSettle ==
    (BlackAndWhiteRun /\ update >= 10000) =>
        /\ Abs(GetProportionBlack - 300000) <= 50000
        /\ Abs(GetProportionWhite - 400000) <= 50000
        /\ Abs(GetGlobalTemperature - 2200) <= 300

C24_Witness ==
    /\ BlackAndWhiteRun
    /\ update = 10001
    /\ lastOp = Call("Update", <<>>)
    /\ GetProportionBlack > 0
    /\ GetProportionWhite > 0

(***************************************************************************)
(* The luminosity sweeps (Tests 4 to 9 of main): the function              *)
(* TestRaisingAndLoweringLuminosity constructs a flat world at the lowest  *)
(* luminosity, sets the three enable flags, updates once, and then calls   *)
(* TestWorldAtLuminosity for the luminosities 0.5, 0.51, ..., 1.69 and     *)
(* 1.7, 1.69, ..., 0.5.  TestWorldAtLuminosity sets the luminosity, boosts *)
(* and calls UpdateWorldTimes, which updates updatesPerLuminosity times    *)
(* and boosts once more after the update numbered updates / 2.             *)
(* The position of the program is a function of calls, the number of       *)
(* calls it has made on the world.                                         *)
(***************************************************************************)
minLuminosity == 500000
maxLuminosity == 1700000
luminosityStep == 10000

\* std::round((maxLuminosity - minLuminosity) / luminosityStep)
numberOfLuminosityTrials ==
    (maxLuminosity - minLuminosity + luminosityStep \div 2) \div luminosityStep

\* what a colour that is enabled starts with
startingProportion == 330000

\* (whiteEnabled, blackEnabled, grayEnabled) of Tests 4, 5, 6, 7, 8 and 9
SweepTests ==
    { <<FALSE, FALSE, FALSE>>, <<FALSE, TRUE, FALSE>>, <<TRUE, FALSE, FALSE>>,
      <<TRUE, TRUE, FALSE>>, <<FALSE, FALSE, TRUE>>, <<TRUE, TRUE, TRUE>> }

InitSweep(tests) ==
    /\ \E test \in tests :
          Constructed(IF test[1] THEN startingProportion ELSE 0,
                      IF test[2] THEN startingProportion ELSE 0,
                      minLuminosity,
                      IF test[3] THEN startingProportion ELSE 0,
                      FALSE)
    /\ animator = NoAnimator

\* the arguments whiteEnabled, blackEnabled and grayEnabled of the running test: a colour
\* starts above 0 exactly when its argument is true, and from its Set...Enabled call on the
\* flag holds the argument
whiteEnabled == IF calls < 1 THEN ground.proportionWhite > 0 ELSE whiteDaisiesEnabled

blackEnabled == IF calls < 2 THEN ground.proportionBlack > 0 ELSE blackDaisiesEnabled

grayEnabled == IF calls < 3 THEN ground.proportionGray > 0 ELSE grayDaisiesEnabled

\* the calls made before the first TestWorldAtLuminosity: three setters and one Update
callsBeforeTrials == 4

\* the calls one TestWorldAtLuminosity makes
CallsPerTrial(updatesPerLuminosity) == updatesPerLuminosity + 3

\* how many TestWorldAtLuminosity calls have returned
TrialsDone(updatesPerLuminosity) ==
    (calls - callsBeforeTrials) \div CallsPerTrial(updatesPerLuminosity)

\* how many calls the running TestWorldAtLuminosity has made
CallsInTrial(updatesPerLuminosity) ==
    (calls - callsBeforeTrials) % CallsPerTrial(updatesPerLuminosity)

\* the variable trial of the first loop, then of the second
TrialOf(trialsDone) ==
    IF trialsDone < numberOfLuminosityTrials THEN trialsDone
    ELSE 2 * numberOfLuminosityTrials - trialsDone

\* minLuminosity + luminosityStep * trial
LuminosityOfTrial(trial) == minLuminosity + luminosityStep * trial

InTrials(updatesPerLuminosity) ==
    /\ animator = NoAnimator
    /\ calls >= callsBeforeTrials
    /\ TrialsDone(updatesPerLuminosity) <= 2 * numberOfLuminosityTrials

Sweep_SetWhiteEnabled ==
    /\ animator = NoAnimator
    /\ calls = 0
    /\ World_SetWhiteEnabled(whiteEnabled)
    /\ UNCHANGED animator

Sweep_SetBlackEnabled ==
    /\ animator = NoAnimator
    /\ calls = 1
    /\ World_SetBlackEnabled(blackEnabled)
    /\ UNCHANGED animator

Sweep_SetGrayEnabled ==
    /\ animator = NoAnimator
    /\ calls = 2
    /\ World_SetGrayEnabled(grayEnabled)
    /\ UNCHANGED animator

\* the world.Update() before the loops
Sweep_Update ==
    /\ animator = NoAnimator
    /\ calls = 3
    /\ World_Update
    /\ UNCHANGED animator

TestWorldAtLuminosity_SetSolarLuminosity(updatesPerLuminosity) ==
    /\ InTrials(updatesPerLuminosity)
    /\ CallsInTrial(updatesPerLuminosity) = 0
    /\ World_SetSolarLuminosity(LuminosityOfTrial(TrialOf(TrialsDone(updatesPerLuminosity))))
    /\ UNCHANGED animator

\* not the code: TestWorldAtLuminosity updates where it should boost
TestWorldAtLuminosity_BoostDaisiesIfExtinct_missing(updatesPerLuminosity) ==
    /\ InTrials(updatesPerLuminosity)
    /\ CallsInTrial(updatesPerLuminosity) = 1
    /\ World_Update
    /\ UNCHANGED animator

TestWorldAtLuminosity_BoostDaisiesIfExtinct(updatesPerLuminosity) ==
    /\ InTrials(updatesPerLuminosity)
    /\ CallsInTrial(updatesPerLuminosity) = 1
    /\ World_BoostDaisiesIfExtinct
    /\ UNCHANGED animator

\* the call after which UpdateWorldTimes boosts: the updates 0 .. updates / 2 are calls
\* 2 .. updates / 2 + 2 of the trial
CallsAtHalfway(updatesPerLuminosity) == updatesPerLuminosity \div 2 + 3

UpdateWorldTimes_Update(updatesPerLuminosity) ==
    /\ InTrials(updatesPerLuminosity)
    /\ CallsInTrial(updatesPerLuminosity) >= 2
    /\ CallsInTrial(updatesPerLuminosity) # CallsAtHalfway(updatesPerLuminosity)
    /\ World_Update
    /\ UNCHANGED animator

UpdateWorldTimes_BoostDaisiesIfExtinct(updatesPerLuminosity) ==
    /\ InTrials(updatesPerLuminosity)
    /\ CallsInTrial(updatesPerLuminosity) = CallsAtHalfway(updatesPerLuminosity)
    /\ World_BoostDaisiesIfExtinct
    /\ UNCHANGED animator

TestRaisingAndLoweringLuminosity(updatesPerLuminosity) ==
    \/ Sweep_SetWhiteEnabled
    \/ Sweep_SetBlackEnabled
    \/ Sweep_SetGrayEnabled
    \/ Sweep_Update
    \/ TestWorldAtLuminosity_SetSolarLuminosity(updatesPerLuminosity)
    \/ TestWorldAtLuminosity_BoostDaisiesIfExtinct(updatesPerLuminosity)
    \/ UpdateWorldTimes_Update(updatesPerLuminosity)
    \/ UpdateWorldTimes_BoostDaisiesIfExtinct(updatesPerLuminosity)

\* the sweeps with a few updates per luminosity
UpdatesPerLuminosity == 4

InitSweeps == InitSweep(SweepTests)

NextSweeps == TestRaisingAndLoweringLuminosity(UpdatesPerLuminosity)

SpecSweeps == InitSweeps /\ [][NextSweeps]_vars

\* the run of Test 4 (no daisies) / of Test 8 (gray daisies only)
NoDaisyRun == animator = NoAnimator /\ ~whiteEnabled /\ ~blackEnabled /\ ~grayEnabled

GrayOnlyRun == animator = NoAnimator /\ ~whiteEnabled /\ ~blackEnabled /\ grayEnabled

NoDaisies == AggregateProportions = <<0, 0, 0>> /\ GetProportionGround = ONE

\* C21: No-daisy control run: in the sweep with white, black and gray disabled and started
\* at 0, every proportion is 0 and the global albedo is 0.5 before and after every call
\* (every BoostDaisiesIfExtinct included), a call that raises the luminosity raises the
\* global temperature and one that lowers it lowers the temperature, and the temperature
\* is within a degree of -21 at luminosity 0.5 and of 70 at luminosity 1.7.
C21_NoDaisyControlRun ==
    [][NoDaisyRun =>
          /\ NoDaisies /\ NoDaisies'
          /\ GetTotalAlbedo = groundAlbedo /\ GetTotalAlbedo' = groundAlbedo
          /\ solarLuminosity' > solarLuminosity => GetGlobalTemperature' > GetGlobalTemperature
          /\ solarLuminosity' < solarLuminosity => GetGlobalTemperature' < GetGlobalTemperature
          /\ solarLuminosity' = minLuminosity => Abs(GetGlobalTemperature' + 2100) <= 100
          /\ solarLuminosity' = maxLuminosity => Abs(GetGlobalTemperature' - 7000) <= 100]_vars

\* the no-daisy run has boosted at the highest luminosity, after having boosted and updated
\* at every luminosity below it
C21_Witness ==
    /\ NoDaisyRun
    /\ solarLuminosity = maxLuminosity
    /\ lastOp.op = "BoostDaisiesIfExtinct"
    /\ update > numberOfLuminosityTrials
    /\ NoDaisies

\* C22: Gray daisies are thermally neutral: throughout the sweep with gray daisies only
\* (white and black at 0) the global albedo is that of bare ground and the global temperature
\* is the one of a world without daisies at the same luminosity, whatever the gray proportion.
C22_GrayIsThermallyNeutral ==
    (GrayOnlyRun /\ GetProportionWhite = 0 /\ GetProportionBlack = 0) =>
        /\ GetTotalAlbedo = groundAlbedo
        /\ GetGlobalTemperature =
              GlobalTemperatureOf(FALSE, GroundCover(0, 0, 0), groundAtLatitudes, solarLuminosity)

\* gray daisies have grown above their boost at a luminosity above 1
C22_Witness ==
    /\ GrayOnlyRun
    /\ solarLuminosity > ONE
    /\ lastOp.op = "Update"
    /\ GetProportionGray > flatWorldBoost
    /\ GetProportionGray % 2 = 1

(***************************************************************************)
(* Test 7 on its own, the sweep with white and black daisies, with enough  *)
(* updates per luminosity for the proportions to settle.                   *)
(***************************************************************************)
EquilibrationUpdates == 500

InitRegulation == InitSweep({ <<TRUE, TRUE, FALSE>> })

NextRegulation == TestRaisingAndLoweringLuminosity(EquilibrationUpdates)

SpecRegulation == InitRegulation /\ [][NextRegulation]_vars

\* a TestWorldAtLuminosity call of the first loop (rising luminosity) has just returned
RisingTrialDone(updatesPerLuminosity) ==
    /\ animator = NoAnimator
    /\ calls >= callsBeforeTrials + CallsPerTrial(updatesPerLuminosity)
    /\ CallsInTrial(updatesPerLuminosity) = 0
    /\ TrialsDone(updatesPerLuminosity) <= numberOfLuminosityTrials

\* the temperature of the world without daisies at the current luminosity
NoDaisyTemperature ==
    GlobalTemperatureOf(FALSE, GroundCover(0, 0, 0), groundAtLatitudes, solarLuminosity)

MaxRepeatedUpdates == 2

UpdateCovers ==
    { GroundCover(500000, 500000, 0), GroundCover(340000, 330000, 330000),
      GroundCover(1000000, 0, 0), GroundCover(0, 0, 1000000), GroundCover(0, 0, 0),
      GroundCover(1000, 1000, 1000), GroundCover(1500, 700000, 298500),
      GroundCover(330000, 330000, 0), GroundCover(600000, 300000, 50000) }

\* luminosities from no sun at all to three and a half suns
UpdateLuminosities == { 0, 500000, 1000000, 1700000, 3500000 }

\* a cover as Set<Colour>Enabled(false) leaves it for the colours that are disabled
WithoutDisabled(gc, en) ==
    GroundCover(IF en.White THEN gc.proportionWhite ELSE 0,
                IF en.Black THEN gc.proportionBlack ELSE 0,
                IF en.Gray THEN gc.proportionGray ELSE 0)

\* the bands all alike, or one cover after the other from the equator to the pole
UpdateBands ==
    { [latitude \in Latitudes |-> gc] : gc \in UpdateCovers }
    \cup { [latitude \in Latitudes |->
               CHOOSE gc \in UpdateCovers :
                   gc.proportionWhite + 2 * gc.proportionBlack + 3 * gc.proportionGray
                   = CHOOSE key \in { c.proportionWhite + 2 * c.proportionBlack
                                      + 3 * c.proportionGray : c \in UpdateCovers } :
                         Cardinality({ c \in UpdateCovers :
                             c.proportionWhite + 2 * c.proportionBlack + 3 * c.proportionGray
                             < key }) = latitude % Cardinality(UpdateCovers)] }

InitUpdate ==
    \E gc \in UpdateCovers, bands \in UpdateBands, _roundWorld \in BOOLEAN,
       w \in BOOLEAN, b \in BOOLEAN, g \in BOOLEAN :
        /\ roundWorld = _roundWorld
        /\ ground = IF _roundWorld THEN GroundCover(0, 0, 0)
                                   ELSE WithoutDisabled(gc, EnabledFlags(w, b, g))
        /\ groundAtLatitudes =
              IF _roundWorld
              THEN [latitude \in Latitudes |->
                       WithoutDisabled(bands[latitude], EnabledFlags(w, b, g))]
              ELSE [latitude \in Latitudes |->
                       WithoutDisabled(DefaultGroundCover, EnabledFlags(w, b, g))]
        /\ solarLuminosity \in UpdateLuminosities
        /\ whiteDaisiesEnabled = w
        /\ blackDaisiesEnabled = b
        /\ grayDaisiesEnabled = g
        /\ daisiesCanGrowAndDie = TRUE
        /\ update = 0
        /\ lastOp = Call("SetSolarLuminosity", solarLuminosity)
        /\ calls = 0
        /\ beforeTrip = NoTrip
        /\ animator = NoAnimator

RepeatedUpdate ==
    /\ update < MaxRepeatedUpdates
    /\ World_Update
    /\ UNCHANGED animator

NextUpdate == RepeatedUpdate

SpecUpdate == InitUpdate /\ [][NextUpdate]_vars

\* every proportion of the cover is non-negative and their sum is at most 1
WithinPhysicalBounds(gc) ==
    /\ gc.proportionWhite >= 0
    /\ gc.proportionBlack >= 0
    /\ gc.proportionGray >= 0
    /\ GC_GetProportionGround(gc) >= 0

\* C26: Update() alone preserves physical bounds: a ground cover (the flat one, or any
\* band) whose proportions are non-negative and sum to at most 1 before an Update() call
\* has non-negative proportions that sum to at most 1 after it, at every luminosity and
\* for every combination of enable flags.
C26_UpdatePreservesPhysicalBounds ==
    [][IsCall("Update") =>
          /\ WithinPhysicalBounds(ground) => WithinPhysicalBounds(ground')
          /\ \A latitude \in Latitudes :
                WithinPhysicalBounds(groundAtLatitudes[latitude])
                    => WithinPhysicalBounds(groundAtLatitudes'[latitude])]_vars

\* Update() has run on a round world without any sun and has left, in some band, a colour
\* extinct that was alive, and in some band more than 0.99 of the ground covered
C26_Witness ==
    /\ lastOp.op = "Update"
    /\ update = 1
    /\ roundWorld
    /\ solarLuminosity = 0
    /\ \E latitude \in Latitudes :
          /\ groundAtLatitudes[latitude].proportionBlack = 0
          /\ blackDaisiesEnabled
          /\ GC_GetProportionGround(groundAtLatitudes[latitude]) > 500000
    /\ \E latitude \in Latitudes :
          GC_GetProportionGround(groundAtLatitudes[latitude]) < 10000

(***************************************************************************)
(* A round trip: a flat world, at most one Update() or                     *)
(* BoostDaisiesIfExtinct() on it, SetRoundWorld(true), updates and boosts  *)
(* on the round world, SetRoundWorld(false).  beforeTrip holds what the    *)
(* proportion getters returned before the first switch.                    *)
(***************************************************************************)
MaxRoundUpdates == 3

\* not the code: switching to flat stores the means over the bands in the flat cover
World_SetRoundWorld_averaging(_roundworld) ==
    /\ roundWorld' = _roundworld
    /\ ground' = IF roundWorld /\ ~_roundworld
                 THEN GroundCover(ProportionWhiteOf(TRUE, ground, groundAtLatitudes),
                                  ProportionBlackOf(TRUE, ground, groundAtLatitudes),
                                  ProportionGrayOf(TRUE, ground, groundAtLatitudes))
                 ELSE ground
    /\ lastOp' = Call("SetRoundWorld", _roundworld)
    /\ calls' = calls + 1
    /\ UNCHANGED <<groundAtLatitudes, solarLuminosity, blackDaisiesEnabled,
                   whiteDaisiesEnabled, grayDaisiesEnabled, daisiesCanGrowAndDie, update>>

World_SetRoundWorld(_roundworld) ==
    /\ roundWorld' = _roundworld
    /\ lastOp' = Call("SetRoundWorld", _roundworld)
    /\ calls' = calls + 1
    /\ UNCHANGED <<ground, groundAtLatitudes, solarLuminosity, blackDaisiesEnabled,
                   whiteDaisiesEnabled, grayDaisiesEnabled, daisiesCanGrowAndDie, update>>

InitRoundTrip ==
    /\ \E p \in ConstructorProportions, _solarLuminosity \in Luminosities :
          Constructed(p[1], p[2], _solarLuminosity, p[3], FALSE)
    /\ animator = NoAnimator

\* the world has not been switched yet
BeforeTrip == ~roundWorld /\ beforeTrip = NoTrip

RoundTrip_FlatUpdate ==
    /\ BeforeTrip
    /\ calls = 0
    /\ World_Update
    /\ UNCHANGED animator

RoundTrip_FlatBoost ==
    /\ BeforeTrip
    /\ calls = 0
    /\ World_BoostDaisiesIfExtinct
    /\ UNCHANGED animator

RoundTrip_SetRound ==
    /\ BeforeTrip
    /\ World_SetRoundWorld(TRUE)
    /\ beforeTrip' = AggregateProportions
    /\ UNCHANGED animator

RoundTrip_Update ==
    /\ roundWorld
    /\ update < MaxRoundUpdates
    /\ World_Update
    /\ UNCHANGED animator

RoundTrip_Boost ==
    /\ roundWorld
    /\ lastOp.op # "BoostDaisiesIfExtinct"
    /\ World_BoostDaisiesIfExtinct
    /\ UNCHANGED animator

RoundTrip_SetFlat ==
    /\ roundWorld
    /\ World_SetRoundWorld(FALSE)
    /\ UNCHANGED <<beforeTrip, animator>>

NextRoundTrip ==
    \/ RoundTrip_FlatUpdate
    \/ RoundTrip_FlatBoost
    \/ RoundTrip_SetRound
    \/ RoundTrip_Update
    \/ RoundTrip_Boost
    \/ RoundTrip_SetFlat

SpecRoundTrip == InitRoundTrip /\ [][NextRoundTrip]_vars

\* C27: The flat cover and the bands are independent: Update() and BoostDaisiesIfExtinct()
\* leave the flat cover unchanged in round mode and every band unchanged in flat mode, and
\* after flat -> round, any updates and boosts, -> flat the flat proportions are exactly
\* those held before the first switch.
C27_FlatAndBandsAreIndependent ==
    /\ [][(IsCall("Update") \/ IsCall("BoostDaisiesIfExtinct")) =>
             IF roundWorld THEN ground' = ground
                           ELSE groundAtLatitudes' = groundAtLatitudes]_vars
    /\ []((~roundWorld /\ beforeTrip # NoTrip) => AggregateProportions = beforeTrip)

\* the world is flat again after updates and a boost that changed the bands
C27_Witness ==
    /\ lastOp = Call("SetRoundWorld", FALSE)
    /\ beforeTrip # NoTrip
    /\ update >= 2
    /\ GetProportionWhite > 0
    /\ groundAtLatitudes[0] # DefaultGroundCover
    /\ groundAtLatitudes[0].proportionWhite # ground.proportionWhite

(***************************************************************************)
(* Disabling a colour: on a world just constructed one of the three        *)
(* Set<Colour>Enabled(false) is called, and then a few calls of Update,    *)
(* SetSolarLuminosity, SetRoundWorld, BoostDaisiesIfExtinct and            *)
(* Set<Colour>Enabled(true) in any order.                                  *)
(***************************************************************************)
MaxCallsAfterDisabling == 3

InitDisabling ==
    /\ \E p \in ConstructorProportions, _roundWorld \in BOOLEAN :
          Constructed(p[1], p[2], ONE, p[3], _roundWorld)
    /\ animator = NoAnimator

Disabling_SetEnabledFalse ==
    /\ calls = 0
    /\ \/ World_SetWhiteEnabled(FALSE)
       \/ World_SetBlackEnabled(FALSE)
       \/ World_SetGrayEnabled(FALSE)
    /\ UNCHANGED animator

AfterDisabling == 1 <= calls /\ calls <= MaxCallsAfterDisabling

Disabling_Update ==
    /\ AfterDisabling
    /\ World_Update
    /\ UNCHANGED animator

Disabling_SetSolarLuminosity(_solarLuminosity) ==
    /\ AfterDisabling
    /\ World_SetSolarLuminosity(_solarLuminosity)
    /\ UNCHANGED animator

Disabling_SetRoundWorld(_roundworld) ==
    /\ AfterDisabling
    /\ World_SetRoundWorld(_roundworld)
    /\ UNCHANGED <<beforeTrip, animator>>

Disabling_BoostDaisiesIfExtinct ==
    /\ AfterDisabling
    /\ World_BoostDaisiesIfExtinct
    /\ UNCHANGED animator

\* a colour that is disabled is enabled again
Disabling_SetEnabledTrue ==
    /\ AfterDisabling
    /\ \/ ~whiteDaisiesEnabled /\ World_SetWhiteEnabled(TRUE)
       \/ ~blackDaisiesEnabled /\ World_SetBlackEnabled(TRUE)
       \/ ~grayDaisiesEnabled /\ World_SetGrayEnabled(TRUE)
    /\ UNCHANGED animator

NextDisabling ==
    \/ Disabling_SetEnabledFalse
    \/ Disabling_Update
    \/ \E _solarLuminosity \in Luminosities : Disabling_SetSolarLuminosity(_solarLuminosity)
    \/ \E _roundworld \in BOOLEAN : Disabling_SetRoundWorld(_roundworld)
    \/ Disabling_BoostDaisiesIfExtinct
    \/ Disabling_SetEnabledTrue

SpecDisabling == InitDisabling /\ [][NextDisabling]_vars

ProportionOfColour(gc, colour) ==
    CASE colour = "White" -> gc.proportionWhite
      [] colour = "Black" -> gc.proportionBlack
      [] colour = "Gray"  -> gc.proportionGray

\* the colour has proportion 0 in the flat cover and in all the bands
ZeroEverywhere(g, bands, colour) ==
    /\ ProportionOfColour(g, colour) = 0
    /\ \A latitude \in Latitudes : ProportionOfColour(bands[latitude], colour) = 0

\* C28: Set<Colour>Enabled(false) leaves the colour at 0 in the flat cover and in all 90
\* bands, in either topology; a colour that is 0 everywhere stays 0 everywhere through
\* every call of Update, SetSolarLuminosity, SetRoundWorld, BoostDaisiesIfExtinct and
\* Set<Colour>Enabled other than a BoostDaisiesIfExtinct made while the colour is enabled:
\* enabling it again does not restore it, and neither does an Update() after that.
C28_DisabledColourStaysExtinct ==
    [][\A colour \in Colours :
          /\ (IsCall("Set" \o colour \o "Enabled") /\ ~Enabled'[colour]) =>
                ZeroEverywhere(ground', groundAtLatitudes', colour)
          /\ (ZeroEverywhere(ground, groundAtLatitudes, colour)
                /\ ~(IsCall("BoostDaisiesIfExtinct") /\ Enabled[colour])) =>
                ZeroEverywhere(ground', groundAtLatitudes', colour)]_vars

\* white was disabled, enabled again and has gone through an Update() of a round world in
\* which black grows: it is still 0 everywhere
C28_Witness ==
    /\ lastOp.op = "Update"
    /\ calls = 3
    /\ roundWorld
    /\ whiteDaisiesEnabled
    /\ ZeroEverywhere(ground, groundAtLatitudes, "White")
    /\ groundAtLatitudes[0].proportionBlack > 0
    /\ groundAtLatitudes[0].proportionBlack # 330000

(***************************************************************************)
(* web.cpp: the Animator.  Its member world is World{0, 0, 1}; its         *)
(* constructor sets the luminosity, the gray flag and the topology from    *)
(* the configuration, and every frame DoFrame() updates the world          *)
(* GetUpdatesPerTimeUnit() * world_time_per_frame times and then calls     *)
(* UpdateLuminosity(), which moves the luminosity one step along a         *)
(* triangle wave, sets it and boosts.  animator holds the fields           *)
(* luminosity and increasing_luminosity.                                   *)
(***************************************************************************)
MaxFrames == 3

min_luminosity == 500000
max_luminosity == 1700000
luminosity_change_per_frame == 1000

\* GetUpdatesPerTimeUnit() * world_time_per_frame = 100 * 0.5
number_of_updates == TruncDiv(MulDiv(ONE, ONE, timePerUpdate), 2 * ONE)

\* config.LUMINOSITY(): its default, the middle of the range, and one step below the top
ConfiguredLuminosities == { 500000, 1000000, 1699000 }

InitAnimator ==
    /\ Constructed(0, 0, ONE, 0, FALSE)
    /\ animator = [luminosity |-> ONE, increasing_luminosity |-> TRUE]

\* the calls the constructor makes
callsOfConstructor == 3

\* the calls one DoFrame makes
callsPerFrame == number_of_updates + 2

FramesDone == (calls - callsOfConstructor) \div callsPerFrame

CallsInFrame == (calls - callsOfConstructor) % callsPerFrame

InFrames ==
    /\ animator # NoAnimator
    /\ calls >= callsOfConstructor
    /\ FramesDone < MaxFrames

\* luminosity = config.LUMINOSITY(); world.SetSolarLuminosity(luminosity)
Animator_SetSolarLuminosity(_luminosity) ==
    /\ animator # NoAnimator
    /\ calls = 0
    /\ animator' = [animator EXCEPT !.luminosity = _luminosity]
    /\ World_SetSolarLuminosity(_luminosity)

Animator_SetGrayEnabled(_grayEnabled) ==
    /\ animator # NoAnimator
    /\ calls = 1
    /\ World_SetGrayEnabled(_grayEnabled)
    /\ UNCHANGED animator

Animator_SetRoundWorld(latSim) ==
    /\ animator # NoAnimator
    /\ calls = 2
    /\ World_SetRoundWorld(latSim)
    /\ UNCHANGED <<beforeTrip, animator>>

DoFrame_Update ==
    /\ InFrames
    /\ CallsInFrame < number_of_updates
    /\ World_Update
    /\ UNCHANGED animator

\* the fields of the Animator after the if / else of UpdateLuminosity
NextLuminosity ==
    IF animator.increasing_luminosity
    THEN [luminosity |-> animator.luminosity + luminosity_change_per_frame,
          increasing_luminosity |->
              ~(animator.luminosity + luminosity_change_per_frame >= max_luminosity)]
    ELSE [luminosity |-> animator.luminosity - luminosity_change_per_frame,
          increasing_luminosity |->
              animator.luminosity - luminosity_change_per_frame <= min_luminosity]

UpdateLuminosity_SetSolarLuminosity ==
    /\ InFrames
    /\ CallsInFrame = number_of_updates
    /\ animator' = NextLuminosity
    /\ World_SetSolarLuminosity(NextLuminosity.luminosity)

UpdateLuminosity_BoostDaisiesIfExtinct ==
    /\ InFrames
    /\ CallsInFrame = number_of_updates + 1
    /\ World_BoostDaisiesIfExtinct
    /\ UNCHANGED animator

NextAnimator ==
    \/ \E _luminosity \in ConfiguredLuminosities : Animator_SetSolarLuminosity(_luminosity)
    \/ \E _grayEnabled \in BOOLEAN : Animator_SetGrayEnabled(_grayEnabled)
    \/ \E latSim \in BOOLEAN : Animator_SetRoundWorld(latSim)
    \/ DoFrame_Update
    \/ UpdateLuminosity_SetSolarLuminosity
    \/ UpdateLuminosity_BoostDaisiesIfExtinct

(***************************************************************************)
(* The two programs: the sweeps of main and the Animator                   *)
(***************************************************************************)
InitDrivers == InitSweeps \/ InitAnimator

NextDrivers == NextSweeps \/ NextAnimator

SpecDrivers == InitDrivers /\ [][NextDrivers]_vars

\* the last call was the SetSolarLuminosity of TestWorldAtLuminosity or of UpdateLuminosity
LuminosityJustSet ==
    /\ lastOp.op = "SetSolarLuminosity"
    /\ animator # NoAnimator => calls > callsOfConstructor

\* every enabled colour is at its boost threshold or above: 0.01 on the flat cover, 0.001 in
\* every band of a round world
EnabledColoursBoosted ==
    \A colour \in Colours :
        Enabled[colour] =>
            IF roundWorld
            THEN \A latitude \in Latitudes :
                    ProportionOfColour(groundAtLatitudes[latitude], colour) >= roundWorldBoost
            ELSE ProportionOfColour(ground, colour) >= flatWorldBoost

\* C29: Driver ordering: the call that follows a SetSolarLuminosity made by
\* TestWorldAtLuminosity or by Animator::UpdateLuminosity is BoostDaisiesIfExtinct, never
\* Update, and the Update() that follows that boost finds every enabled colour at its boost
\* threshold or above (0.01 on a flat world).
C29_BoostFollowsNewLuminosity ==
    [][(calls' = calls + 1) =>
          /\ LuminosityJustSet => lastOp'.op = "BoostDaisiesIfExtinct"
          /\ (IsCall("Update") /\ lastOp.op = "BoostDaisiesIfExtinct") => EnabledColoursBoosted]_vars

\* the Animator has made the first update of its second frame, at the luminosity its first
\* UpdateLuminosity() set, with white daisies that the boost raised from 0
C29_Witness ==
    /\ animator # NoAnimator
    /\ ~roundWorld
    /\ lastOp.op = "Update"
    /\ update = number_of_updates + 1
    /\ solarLuminosity = animator.luminosity
    /\ solarLuminosity = ONE + luminosity_change_per_frame
    /\ GetProportionWhite >= flatWorldBoost

(***************************************************************************)
(* The average latitude of a habitat against its lowest and highest band   *)
(***************************************************************************)
\* average, in hundredths of a band, is a number, min and max are bands and not the sentinels
\* numberOfLatitudes and -1, and average is no farther than slack outside min .. max
WithinHabitat(average, min, max, slack) ==
    ~average.isNaN =>
        /\ min # numberOfLatitudes
        /\ max # -1
        /\ 100 * min - slack <= average.value
        /\ average.value <= 100 * max + slack

\* the three getters of each colour: what GetAverageLatitudeOf<Colour>() returned with
\* what GetMinLatitudeOf<Colour>() and GetMaxLatitudeOf<Colour>() return in the same state
AverageWithinHabitat(slack) ==
    /\ (roundWorld /\ lastOp.op = "GetAverageLatitudeOfWhite") =>
          WithinHabitat(lastOp.arg, GetMinLatitudeOfWhite(groundAtLatitudes),
                        GetMaxLatitudeOfWhite(groundAtLatitudes), slack)
    /\ (roundWorld /\ lastOp.op = "GetAverageLatitudeOfBlack") =>
          WithinHabitat(lastOp.arg, GetMinLatitudeOfBlack(groundAtLatitudes),
                        GetMaxLatitudeOfBlack(groundAtLatitudes), slack)
    /\ (roundWorld /\ lastOp.op = "GetAverageLatitudeOfGray") =>
          WithinHabitat(lastOp.arg, GetMinLatitudeOfGray(groundAtLatitudes),
                        GetMaxLatitudeOfGray(groundAtLatitudes), slack)

\* C30 as stated: in round mode an average latitude that is not NaN lies between
\* GetMinLatitudeOf<Colour>() and GetMaxLatitudeOf<Colour>() inclusive, and neither of the
\* two is then a sentinel.
C30_AverageBetweenMinAndMax == AverageWithinHabitat(0)

\* C30 amended: in round mode an average latitude that is not NaN lies between
\* GetMinLatitudeOf<Colour>() and GetMaxLatitudeOf<Colour>() up to the rounding of the sums
\* (within 0.01 of a band), and neither of the two is then a sentinel.
C30_AverageBetweenMinAndMaxRounded == AverageWithinHabitat(1)

\* GetAverageLatitudeOfWhite() has returned a latitude strictly inside the habitat 80 .. 89
C30_Witness ==
    /\ roundWorld
    /\ lastOp.op = "GetAverageLatitudeOfWhite"
    /\ ~lastOp.arg.isNaN
    /\ GetMinLatitudeOfWhite(groundAtLatitudes) = 80
    /\ GetMaxLatitudeOfWhite(groundAtLatitudes) = 89
    /\ lastOp.arg.value > 8000
    /\ lastOp.arg.value < 8900

=============================================================================
